---- MODULE Spec2Model ----
(***************************************************************************)
(* Request normalisation and content negotiation of pygeoapi:              *)
(*   - APIRequest (src/pygeoapi/request.py): locale resolution, format     *)
(*     negotiation, validity check, response headers;                      *)
(*   - execute_from_flask / execute_from_starlette: the per-request        *)
(*     pipeline of the synchronous and the asynchronous adapter.           *)
(*                                                                         *)
(* Strings are finite sequences of lexemes: a lexeme is either a separator *)
(* character (" ", ",", ";") or an indivisible word ("json", "text/html",  *)
(* "q=0.9", "fr-CA").  strip, split and lower are computed on these        *)
(* sequences as Python computes them on characters.  Python's None is the  *)
(* one-lexeme sequence None, which no input string contains.               *)
(***************************************************************************)
EXTENDS Integers, Sequences, FiniteSets, TLC

VARIABLES
    call,        \* the last method call on an envelope: its inputs and result
    module,      \* the module-level objects of pygeoapi.constants at run time
    locales,     \* api_instance.locales, the supported-locale list
    native,      \* per request: the framework's native request and call options
    pc,          \* per request: position in execute_from_flask / _starlette
    env,         \* per request: the APIRequest envelope under construction
    future,      \* per request: the business-logic call (state, result, exception)
    triple,      \* per request: the (headers, status, content) in hand
    response,    \* per request: the materialized native response
    raised,      \* per request: the exception that left execute_from_*
    calls,       \* per request: how many times api_function was invoked
    steps,       \* per request: the pipeline steps performed, in order
    loopOwner,   \* the request whose coroutine runs on the event-loop thread (0: none)
    backend      \* the web framework this process serves with

vars == <<call, module, locales, native, pc, env, future, triple, response, raised,
          calls, steps, loopOwner, backend>>

handlerVars == <<locales, native, pc, env, future, triple, response, raised,
                 calls, steps, loopOwner, backend>>

pipelineVars == <<module, handlerVars>>

-----------------------------------------------------------------------------
(* Bounds of the model *)

\* concurrently handled requests
NumRequests == 2
\* comma-separated entries of a generated Accept header
MaxAcceptTypes == 2
\* comma-separated entries of a generated Accept-Language header
MaxLanguages == 2
\* entries of a generated supported-locale list
MaxLocales == 2

-----------------------------------------------------------------------------
(* Python strings and dicts *)

None == <<"<None>">>

\* Python truthiness of an Optional[str]
Truthy(s) == s # None /\ s # <<>>

\* x or y
Or(x, y) == IF Truthy(x) THEN x ELSE y

IsSpace(c) == c = " "

RECURSIVE LStrip(_)
LStrip(s) == IF s # <<>> /\ IsSpace(Head(s)) THEN LStrip(Tail(s)) ELSE s

RECURSIVE RStrip(_)
RStrip(s) ==
    IF s # <<>> /\ IsSpace(s[Len(s)]) THEN RStrip(SubSeq(s, 1, Len(s) - 1)) ELSE s

\* str.strip()
Strip(s) == RStrip(LStrip(s))

\* str.strip('/')
RECURSIVE StripSlash(_)
StripSlash(s) ==
    IF s # <<>> /\ Head(s) = "/" THEN StripSlash(Tail(s))
    ELSE IF s # <<>> /\ s[Len(s)] = "/" THEN StripSlash(SubSeq(s, 1, Len(s) - 1))
    ELSE s

\* str.split(sep): the pieces between the occurrences of sep, empty ones included
RECURSIVE Split(_, _)
Split(s, sep) ==
    IF \E i \in 1..Len(s) : s[i] = sep
    THEN LET i == CHOOSE k \in 1..Len(s) :
                      s[k] = sep /\ \A j \in 1..(k - 1) : s[j] # sep
         IN  <<SubSeq(s, 1, i - 1)>> \o Split(SubSeq(s, i + 1, Len(s)), sep)
    ELSE <<s>>

LowerLexeme(c) ==
    CASE c = "JSON" -> "json"
      [] c = "HTML" -> "html"
      [] c = "CSV"  -> "csv"
      [] c = "Bogus" -> "bogus"
      [] OTHER -> c

\* str.lower()
Lower(s) == [i \in 1..Len(s) |-> LowerLexeme(s[i])]

\* dict.get(key, default)
Get(d, key, default) == IF key \in DOMAIN d THEN d[key] ELSE default

\* the empty dict
EmptyDict == [k \in {} |-> <<>>]

\* subsequence of the elements of a list that satisfy a test
RECURSIVE NonEmptyPieces(_)
NonEmptyPieces(ps) ==
    IF ps = <<>> THEN <<>>
    ELSE IF Head(ps) # <<>> THEN <<Head(ps)>> \o NonEmptyPieces(Tail(ps))
    ELSE NonEmptyPieces(Tail(ps))

-----------------------------------------------------------------------------
(* constants.py *)

F_GZIP == <<"gzip">>
F_HTML == <<"html">>
F_JSON == <<"json">>
F_JSONLD == <<"jsonld">>
F_MVT == <<"mvt">>
F_PNG == <<"png">>

\* the OrderedDict, as its list of (key, value) items
FORMAT_TYPES ==
    << <<F_HTML, <<"text/html">> >>,
       <<F_JSONLD, <<"application/ld+json">> >>,
       <<F_JSON, <<"application/json">> >>,
       <<F_PNG, <<"image/png">> >>,
       <<F_MVT, <<"application/vnd.mapbox-vector-tile">> >> >>

HEADERS ==
    [k \in {"Content-Type", "X-Powered-By"} |->
        IF k = "Content-Type" THEN <<"application/json">> ELSE <<"pygeoapi", " ", "version">>]

\* the module-level objects as the import of constants.py leaves them
ModuleAtImport == [FORMAT_TYPES |-> FORMAT_TYPES, HEADERS |-> HEADERS]

\* the module-level objects of a process whose serving configuration enables
\* gzip: the format table has the key F_GZIP, which get_response_headers tests
ModuleGzipEnabled ==
    [ModuleAtImport EXCEPT
        !.FORMAT_TYPES = Append(FORMAT_TYPES, <<F_GZIP, <<"application/gzip">> >>)]

\* FORMAT_TYPES.keys()
FormatKeys == {module.FORMAT_TYPES[i][1] : i \in 1..Len(module.FORMAT_TYPES)}

\* FORMAT_TYPES[key]
FormatType(key) ==
    module.FORMAT_TYPES[CHOOSE i \in 1..Len(module.FORMAT_TYPES) :
                            module.FORMAT_TYPES[i][1] = key][2]

-----------------------------------------------------------------------------
(* APIRequest._get_format *)

\* the tuples fmts and mimes of zip(*FORMAT_TYPES.items())
Fmts == [i \in 1..Len(module.FORMAT_TYPES) |-> module.FORMAT_TYPES[i][1]]

Mimes == [i \in 1..Len(module.FORMAT_TYPES) |-> module.FORMAT_TYPES[i][2]]

\* mimes.index(type_)
MimesIndex(type_) ==
    CHOOSE i \in 1..Len(Mimes) : Mimes[i] = type_ /\ \A j \in 1..(i - 1) : Mimes[j] # type_

\* the generator (t.split(';')[0].strip() for t in h.split(',') if t)
AcceptTypes(h) ==
    LET ts == NonEmptyPieces(Split(h, ","))
    IN  [i \in 1..Len(ts) |-> Strip(Split(ts[i], ";")[1])]

\* the for loop over the header's types: the first of them that is in mimes
\* decides, and the loop breaks
RECURSIVE ScanAccept(_)
ScanAccept(types) ==
    IF types = <<>> THEN <<>>
    ELSE IF \E i \in 1..Len(Mimes) : Mimes[i] = Head(types)
         THEN Fmts[MimesIndex(Head(types))]
         ELSE ScanAccept(Tail(types))

\* a scan in table order: the first entry of the table whose MIME type is among
\* the header's types (what a negotiation by table precedence would return)
RECURSIVE ScanTable(_, _)
ScanTable(types, i) ==
    IF i > Len(Mimes) THEN <<>>
    ELSE IF \E k \in 1..Len(types) : types[k] = Mimes[i] THEN Fmts[i]
    ELSE ScanTable(types, i + 1)

\* the Accept header consulted before the f parameter, as a mutation of
\* _get_format
_get_format_header_first(args, headers) ==
    LET format_ == Strip(Or(Get(args, "f", None), <<>>))
        h == Strip(Get(headers, "accept", Get(headers, "Accept", <<>>)))
        found == ScanAccept(AcceptTypes(h))
    IN  IF found # <<>> THEN found ELSE Or(format_, None)

_get_format(args, headers) ==
    LET format_ == Strip(Or(Get(args, "f", None), <<>>))
    IN  IF format_ # <<>> THEN format_
        ELSE LET h == Strip(Get(headers, "accept", Get(headers, "Accept", <<>>)))
                 found == ScanAccept(AcceptTypes(h))
             IN  Or(found, None)

-----------------------------------------------------------------------------
(* pygeoapi.l10n: locales, and the best match of a language string *)

\* a babel Locale: language and territory ("" when the locale has none)
Locale(language, territory) == [language |-> language, territory |-> territory]

\* no Locale (Python's None where a Locale is expected)
NoLocale == Locale("", "")

\* the locale identifiers that parse, with the Locale each denotes
KnownTags == {"en", "en-US", "fr", "fr-CA", "de"}

ParseTag(tag) ==
    CASE tag = "en"    -> Locale("en", "")
      [] tag = "en-US" -> Locale("en", "US")
      [] tag = "fr"    -> Locale("fr", "")
      [] tag = "fr-CA" -> Locale("fr", "CA")
      [] tag = "de"    -> Locale("de", "")
      [] OTHER         -> NoLocale

\* whether l10n.str2locale(s) succeeds (it raises LocaleError otherwise)
Parsable(s) == Len(s) = 1 /\ s[1] \in KnownTags

\* l10n.str2locale(s, silent=True): the Locale, or none
str2locale(s) == IF Parsable(s) THEN ParseTag(s[1]) ELSE NoLocale

\* l10n.locale2str
locale2str(loc) ==
    IF loc = NoLocale THEN <<>>
    ELSE <<CHOOSE tag \in KnownTags : ParseTag(tag) = loc>>

\* l10n.locale_from_params: the lang query parameter
locale_from_params(params) == Get(params, "lang", None)

\* l10n.locale_from_headers: the Accept-Language header
locale_from_headers(headers) == Get(headers, "Accept-Language", None)

\* the territories the available locales declare for a language, in list order
RECURSIVE Territories(_, _)
Territories(language, available) ==
    IF available = <<>> THEN <<>>
    ELSE LET a == str2locale(Head(available))
         IN  (IF a.language = language THEN <<a.territory>> ELSE <<>>)
                 \o Territories(language, Tail(available))

\* get_match: the available locale a requested locale selects, or none
get_match(loc, available) ==
    LET ts == Territories(loc.language, available)
    IN  IF loc = NoLocale THEN NoLocale
        ELSE IF \E i \in 1..Len(ts) : ts[i] = loc.territory THEN loc
        ELSE IF \E i \in 1..Len(ts) : ts[i] = "" THEN Locale(loc.language, "")
        ELSE IF ts # <<>> THEN Locale(loc.language, ts[1])
        ELSE NoLocale

\* the language tags of an Accept-Language style string, parameters dropped
LanguageTags(s) ==
    LET ts == NonEmptyPieces(Split(s, ","))
    IN  [i \in 1..Len(ts) |-> Strip(Split(ts[i], ";")[1])]

RECURSIVE FirstMatch(_, _)
FirstMatch(tags, available) ==
    IF tags = <<>> THEN NoLocale
    ELSE LET m == get_match(str2locale(Head(tags)), available)
         IN  IF m # NoLocale THEN m ELSE FirstMatch(Tail(tags), available)

\* whether every entry of a supported-locale list parses
AllParsable(available) == \A i \in 1..Len(available) : Parsable(available[i])

\* l10n.best_match: the first requested language with a match among the
\* available locales, else the first available locale
best_match(accept_languages, available) ==
    LET m == FirstMatch(LanguageTags(accept_languages), available)
    IN  IF m # NoLocale THEN m ELSE str2locale(available[1])

\* l10n.set_response_language
set_response_language(headers, loc) ==
    [k \in DOMAIN headers \cup {"Content-Language"} |->
        IF k = "Content-Language" THEN locale2str(loc) ELSE headers[k]]

-----------------------------------------------------------------------------
(* APIRequest._get_locale *)

\* the loop taking the requested locale as it parses, without matching it
\* against the supported locales, as a mutation of LocaleLoop
RECURSIVE LocaleLoopUnmatched(_, _, _, _, _, _)
LocaleLoopUnmatched(i, raw, args, headers, supported, default_locale) ==
    IF i > 2 THEN [error |-> "", raw |-> raw, locale |-> default_locale]
    ELSE LET loc_str == IF i = 1 THEN locale_from_params(args)
                        ELSE locale_from_headers(headers)
             raw2 == IF ~Truthy(raw) THEN loc_str ELSE raw
             loc == str2locale(LanguageTags(loc_str)[1])
             is_override == (i = 1)
         IN  IF ~Truthy(loc_str)
             THEN LocaleLoopUnmatched(i + 1, raw, args, headers, supported,
                                      default_locale)
             ELSE IF loc # default_locale \/ is_override
             THEN [error |-> "", raw |-> raw2, locale |-> loc]
             ELSE LocaleLoopUnmatched(i + 1, raw2, args, headers, supported,
                                      default_locale)

\* the loop with the override test dropped, as a mutation of LocaleLoop
RECURSIVE LocaleLoopNoOverride(_, _, _, _, _, _)
LocaleLoopNoOverride(i, raw, args, headers, supported, default_locale) ==
    IF i > 2 THEN [error |-> "", raw |-> raw, locale |-> default_locale]
    ELSE LET loc_str == IF i = 1 THEN locale_from_params(args)
                        ELSE locale_from_headers(headers)
             raw2 == IF ~Truthy(raw) THEN loc_str ELSE raw
             loc == best_match(loc_str, supported)
         IN  IF ~Truthy(loc_str)
             THEN LocaleLoopNoOverride(i + 1, raw, args, headers, supported,
                                       default_locale)
             ELSE IF ~AllParsable(supported)
             THEN [error |-> "LocaleError", raw |-> None, locale |-> NoLocale]
             ELSE IF loc # default_locale
             THEN [error |-> "", raw |-> raw2, locale |-> loc]
             ELSE LocaleLoopNoOverride(i + 1, raw2, args, headers, supported,
                                       default_locale)

\* the loop recording the raw string of a source only when that source decides,
\* as a mutation of LocaleLoop
RECURSIVE LocaleLoopRawOnDecision(_, _, _, _, _, _)
LocaleLoopRawOnDecision(i, raw, args, headers, supported, default_locale) ==
    IF i > 2 THEN [error |-> "", raw |-> raw, locale |-> default_locale]
    ELSE LET loc_str == IF i = 1 THEN locale_from_params(args)
                        ELSE locale_from_headers(headers)
             loc == best_match(loc_str, supported)
             is_override == (i = 1)
         IN  IF ~Truthy(loc_str)
             THEN LocaleLoopRawOnDecision(i + 1, raw, args, headers, supported,
                                          default_locale)
             ELSE IF ~AllParsable(supported)
             THEN [error |-> "LocaleError", raw |-> None, locale |-> NoLocale]
             ELSE IF loc # default_locale \/ is_override
             THEN [error |-> "", raw |-> loc_str, locale |-> loc]
             ELSE LocaleLoopRawOnDecision(i + 1, raw, args, headers, supported,
                                          default_locale)

\* the loop reading the header before the query parameter, as a mutation of
\* LocaleLoop
RECURSIVE LocaleLoopHeaderFirst(_, _, _, _, _, _)
LocaleLoopHeaderFirst(i, raw, args, headers, supported, default_locale) ==
    IF i > 2 THEN [error |-> "", raw |-> raw, locale |-> default_locale]
    ELSE LET loc_str == IF i = 1 THEN locale_from_headers(headers)
                        ELSE locale_from_params(args)
             raw2 == IF ~Truthy(raw) THEN loc_str ELSE raw
             loc == best_match(loc_str, supported)
             is_override == (i = 2)
         IN  IF ~Truthy(loc_str)
             THEN LocaleLoopHeaderFirst(i + 1, raw, args, headers, supported,
                                        default_locale)
             ELSE IF ~AllParsable(supported)
             THEN [error |-> "LocaleError", raw |-> None, locale |-> NoLocale]
             ELSE IF loc # default_locale \/ is_override
             THEN [error |-> "", raw |-> raw2, locale |-> loc]
             ELSE LocaleLoopHeaderFirst(i + 1, raw2, args, headers, supported,
                                        default_locale)

\* the loop over (locale_from_params, self._args), (locale_from_headers, headers):
\* source 1 is the query parameter, source 2 the header
RECURSIVE LocaleLoop(_, _, _, _, _, _)
LocaleLoop(i, raw, args, headers, supported, default_locale) ==
    IF i > 2 THEN [error |-> "", raw |-> raw, locale |-> default_locale]
    ELSE LET loc_str == IF i = 1 THEN locale_from_params(args)
                        ELSE locale_from_headers(headers)
             raw2 == IF ~Truthy(raw) THEN loc_str ELSE raw
             loc == best_match(loc_str, supported)
             is_override == (i = 1)
         IN  IF ~Truthy(loc_str)
             THEN LocaleLoop(i + 1, raw, args, headers, supported, default_locale)
             ELSE IF ~AllParsable(supported)
             THEN [error |-> "LocaleError", raw |-> None, locale |-> NoLocale]
             ELSE IF loc # default_locale \/ is_override
             THEN [error |-> "", raw |-> raw2, locale |-> loc]
             ELSE LocaleLoop(i + 1, raw2, args, headers, supported, default_locale)

\* the result is (raw, locale), or the error raised
_get_locale(args, headers, supported) ==
    IF supported = <<>> \/ ~Parsable(supported[1])
    THEN [error |-> "ValueError", raw |-> None, locale |-> NoLocale]
    ELSE LocaleLoop(1, None, args, headers, supported, str2locale(supported[1]))

-----------------------------------------------------------------------------
(* APIRequest.is_valid *)

\* an optional list of format names: additional_formats=None, or a list
NoFormats == [given |-> FALSE, items |-> <<>>]

Formats(items) == [given |-> TRUE, items |-> items]

\* additional_formats or ()
FormatItems(additional_formats) ==
    IF additional_formats.given THEN additional_formats.items ELSE <<>>

is_valid(format, additional_formats) ==
    LET extra == FormatItems(additional_formats)
    IN  IF ~Truthy(format) THEN TRUE
        ELSE IF format \in FormatKeys THEN TRUE
        ELSE IF \E i \in 1..Len(extra) : format = Lower(extra[i]) THEN TRUE
        ELSE FALSE

-----------------------------------------------------------------------------
(* Inputs: query parameters, headers, supported-locale lists *)

\* the sequences of 1..n entries of a set, joined by sep
RECURSIVE Joined(_, _, _)
Joined(entries, sep, n) ==
    IF n = 0 THEN {}
    ELSE IF n = 1 THEN entries
    ELSE Joined(entries, sep, n - 1)
         \cup {h \o sep \o e : h \in Joined(entries, sep, n - 1), e \in entries}

\* the lists of 1..n distinct entries of a set
RECURSIVE Lists(_, _)
Lists(entries, n) ==
    IF n = 0 THEN {}
    ELSE IF n = 1 THEN {<<e>> : e \in entries}
    ELSE Lists(entries, n - 1)
         \cup UNION {{Append(l, e) : e \in entries \ {l[i] : i \in 1..Len(l)}} :
                        l \in Lists(entries, n - 1)}

\* values of the f query parameter
FValues ==
    {<<>>, <<" ">>, <<"json">>, <<"JSON">>, <<"html">>, <<"bogus">>, <<"xml">>,
     <<"csv">>, <<"CSV">>, <<" ", "json", " ">>}

\* values of the lang query parameter
LangValues == {<<>>, <<"en">>, <<"en-US">>, <<"fr">>, <<"fr-CA">>, <<"de">>, <<"zz">>}

AcceptEntries ==
    {<<"text/html">>, <<"application/json">>, <<"application/ld+json">>,
     <<"application/json", ";", "q=0.9">>, <<"text/html", ";", "q=0.1">>,
     <<"text/plain">>, <<"image/png", " ">>}

AcceptValues == {<<>>} \cup Joined(AcceptEntries, <<",", " ">>, MaxAcceptTypes)

LanguageEntries ==
    {<<"fr-CA">>, <<"fr", ";", "q=0.8">>, <<"en">>, <<"en-US", ";", "q=0.5">>,
     <<"de">>, <<"zz">>}

AcceptLanguageValues == {<<>>} \cup Joined(LanguageEntries, <<",">>, MaxLanguages)

\* supported-locale lists of a configuration, the empty and the unparsable included
LocaleLists ==
    {<<>>} \cup Lists({<<"en">>, <<"en-US">>, <<"fr">>, <<"fr-CA">>, <<"zz">>}, MaxLocales)

\* the dicts with an optional entry for key
Optional(key, values) == {EmptyDict} \cup {key :> v : v \in values}

\* the additional_formats arguments
AdditionalFormats ==
    {NoFormats, Formats(<<>>), Formats(<< <<"csv">> >>), Formats(<< <<"CSV">> >>),
     Formats(<< <<"bogus">>, <<"xml">> >>), Formats(<< <<"Bogus">> >>)}

-----------------------------------------------------------------------------
(* Method calls on one envelope, inputs drawn from the sets above *)

\* no native request
NoRequest == [variant |-> "", method |-> "", path |-> <<>>, args |-> EmptyDict,
              headers |-> EmptyDict, body |-> <<>>]

\* no call yet; envelope is the APIRequest the methods are called on, once one
\* is constructed, and input the remaining arguments of the call
NoCall ==
    [op |-> "none", args |-> EmptyDict, headers |-> EmptyDict, supported |-> <<>>,
     additional |-> NoFormats, format |-> None, result |-> None,
     request |-> NoRequest,
     envelope |-> [method |-> "", path_info |-> None, args |-> EmptyDict,
                   headers |-> EmptyDict, data |-> <<>>, raw_locale |-> None,
                   locale |-> NoLocale, format |-> None],
     input |-> <<>>]

\* self._get_locale(request.headers, supported_locales)
CallGetLocale ==
    /\ call.op = "none"
    /\ \E a \in Optional("lang", LangValues),
          h \in Optional("Accept-Language", AcceptLanguageValues),
          l \in LocaleLists :
            call' = [NoCall EXCEPT !.op = "_get_locale", !.args = a, !.headers = h,
                                   !.supported = l, !.result = _get_locale(a, h, l)]
    /\ UNCHANGED pipelineVars

\* self._get_format(request.headers)
CallGetFormat ==
    /\ call.op = "none"
    /\ \E a \in Optional("f", FValues),
          h \in Optional("Accept", AcceptValues) \cup Optional("accept", AcceptValues) :
            call' = [NoCall EXCEPT !.op = "_get_format", !.args = a, !.headers = h,
                                   !.result = _get_format(a, h)]
    /\ UNCHANGED pipelineVars

\* api_request.is_valid(additional_formats), on the format that was just
\* negotiated or on a constructed envelope
CallIsValid ==
    /\ call.op = "_get_format" \/ call.envelope.method # ""
    /\ LET format == IF call.op = "_get_format" THEN call.result
                     ELSE call.envelope.format
       IN  \E extra \in AdditionalFormats :
               call' = [call EXCEPT !.op = "is_valid", !.format = format,
                                    !.additional = extra, !.input = <<>>,
                                    !.result = is_valid(format, extra)]
    /\ UNCHANGED pipelineVars

-----------------------------------------------------------------------------
(* APIRequest.get_response_headers, get_request_headers, _get_params *)

\* dict.update
Update(d, other) ==
    [k \in DOMAIN d \cup DOMAIN other |-> IF k \in DOMAIN other THEN other[k] ELSE d[k]]

\* sub in s, for strings
Contains(s, sub) ==
    \E i \in 0..(Len(s) - Len(sub)) : SubSeq(s, i + 1, i + Len(sub)) = sub

\* an envelope: the fields of an APIRequest
NoEnvelope ==
    [method |-> "", path_info |-> None, args |-> EmptyDict, headers |-> EmptyDict,
     data |-> <<>>, raw_locale |-> None, locale |-> NoLocale, format |-> None]

\* APIRequest.get_method
get_method(request) == request.method

\* the native request variants: a request with a scope (Starlette), a request
\* whose headers expose an environ (Flask), a request with a path_info
\* attribute (Django)
Variants == {"scope", "environ", "path_info"}

\* the path info branches of __init__
PathInfo(request) ==
    IF request.variant = "scope" THEN StripSlash(request.path)
    ELSE IF request.variant = "environ" THEN StripSlash(request.path)
    ELSE request.path

_get_params(request) == request.args

get_request_headers(headers) == [k \in DOMAIN headers |-> headers[k]]

\* an empty dict in place of the copy, as a mutation of dict_copy
dict_new(d) == EmptyDict

\* dict.copy(): a new dict with the entries of d
dict_copy(d) == [k \in DOMAIN d |-> d[k]]

\* the name headers bound to the module's own dict instead of a copy of it, as
\* a mutation of HeadersObject
HeadersObjectShared == "HEADERS"

\* headers = HEADERS.copy(): the object that get_response_headers fills and
\* returns is a dict of its own, not the module's HEADERS
HeadersObject == "copy"

\* the module-level objects once a call of get_response_headers has filled and
\* returned the map h: HEADERS holds what was written into it
ModuleAfter(h) ==
    IF HeadersObject = "HEADERS" THEN [module EXCEPT !.HEADERS = h] ELSE module

get_response_headers(e, force_lang, force_type, force_encoding, custom_headers) ==
    LET h0 == Update(dict_copy(module.HEADERS), custom_headers)
        h1 == set_response_language(h0, IF force_lang # NoLocale THEN force_lang
                                        ELSE e.locale)
        h2 == IF Truthy(force_type) THEN Update(h1, "Content-Type" :> force_type)
              ELSE IF is_valid(e.format, NoFormats) /\ Truthy(e.format)
              THEN Update(h1, "Content-Type" :> FormatType(e.format))
              ELSE h1
    IN  IF F_GZIP \in FormatKeys
        THEN IF Truthy(force_encoding)
             THEN Update(h2, "Content-Encoding" :> force_encoding)
             ELSE IF Contains(Get(e.headers, "Accept-Encoding", <<>>), F_GZIP)
             THEN Update(h2, "Content-Encoding" :> F_GZIP)
             ELSE h2
        ELSE h2

-----------------------------------------------------------------------------
(* pygeoapi.api: the format exception, gzip *)

\* a response body: text, bytes or a mapping
Content(kind, data) == [kind |-> kind, data |-> data]

NoTriple == [headers |-> EmptyDict, status |-> 0, content |-> Content("none", <<>>)]

\* API.get_format_exception: the 400 triple for an invalid format
get_format_exception(e) ==
    [headers |-> get_response_headers(e, NoLocale, None, None, EmptyDict),
     status |-> 400,
     content |-> Content("str", <<"InvalidParameterValue", ":">> \o e.format)]

\* str.encode: text to bytes
Encode(content) ==
    IF content.kind = "str" THEN Content("bytes", content.data) ELSE content

\* gzip compression of bytes, and its inverse
Compress(content) == Content("bytes", <<"gzip(">> \o content.data \o <<")">>)

Decompress(content) == Content("bytes", SubSeq(content.data, 2, Len(content.data) - 1))

\* apply_gzip(headers, content)
apply_gzip(headers, content) ==
    IF Get(headers, "Content-Encoding", <<>>) = F_GZIP
    THEN Compress(Encode(content))
    ELSE content

-----------------------------------------------------------------------------
(* Response materialization *)

NoResponse == [kind |-> "none", status |-> 0, headers |-> EmptyDict,
               body |-> Content("none", <<>>)]

\* the name under which a Starlette response stores a header: lower case
LowerName(k) ==
    CASE k = "Content-Type" -> "content-type"
      [] k = "Content-Language" -> "content-language"
      [] k = "Content-Encoding" -> "content-encoding"
      [] k = "Content-Length" -> "content-length"
      [] k = "X-Powered-By" -> "x-powered-by"
      [] OTHER -> k

\* the headers a Starlette response class sets when it is constructed: the
\* length of the body, and the media type of the class if it has one
InitHeaders(kind) ==
    IF kind = "HTMLResponse"
    THEN ("content-length" :> <<"len">>)
         @@ ("content-type" :> <<"text/html", ";", " ", "charset=utf-8">>)
    ELSE IF kind = "JSONResponse"
    THEN ("content-length" :> <<"len">>) @@ ("content-type" :> <<"application/json">>)
    ELSE "content-length" :> <<"len">>

\* response.headers.update(headers), on the MutableHeaders of a response
HeadersUpdate(init, headers) ==
    [k \in DOMAIN init \cup {LowerName(n) : n \in DOMAIN headers} |->
        IF \E n \in DOMAIN headers : LowerName(n) = k
        THEN headers[CHOOSE n \in DOMAIN headers : LowerName(n) = k]
        ELSE init[k]]

\* the response class chosen by a test for text/html anywhere in the content
\* type, as a mutation of ResponseClass
ResponseClassContains(headers, content) ==
    IF Contains(headers["Content-Type"], <<"text/html">>) THEN "HTMLResponse"
    ELSE IF content.kind = "dict" THEN "JSONResponse"
    ELSE "Response"

\* the if / else of _to_response
ResponseClass(headers, content) ==
    IF headers["Content-Type"] = <<"text/html">> THEN "HTMLResponse"
    ELSE IF content.kind = "dict" THEN "JSONResponse"
    ELSE "Response"

\* starlette_application.util._to_response
_to_response(headers, status, content) ==
    LET kind == ResponseClass(headers, content)
    IN  [kind |-> kind, status |-> status,
         headers |-> HeadersUpdate(InitHeaders(kind), headers), body |-> content]

\* the tail of execute_from_flask: make_response(content, status), then the headers
FlaskResponse(headers, status, content) ==
    [kind |-> "Response", status |-> status,
     headers |-> IF headers # EmptyDict THEN headers ELSE EmptyDict,
     body |-> content]

ToResponse(b, t) ==
    IF b = "flask" THEN FlaskResponse(t.headers, t.status, t.content)
    ELSE _to_response(t.headers, t.status, t.content)

-----------------------------------------------------------------------------
(* The request pipeline: execute_from_flask and execute_from_starlette *)

Req == 1..NumRequests

Backends == {"flask", "starlette"}

\* the supported-locale lists of a running server (the API refuses to start on
\* an empty or unparsable list)
ServerLocales == {<< <<"en-US">>, <<"fr">> >>}

\* native requests: query parameters, headers, body
NativeRequests ==
    {[method |-> "GET", path |-> <<"/">>,
      args |-> "f" :> <<"json">>, headers |-> EmptyDict, body |-> <<>>],
     [method |-> "POST", path |-> <<"/", "processes", "/", "hello", "/">>,
      args |-> "f" :> <<"xml">>,
      headers |-> "Accept-Language" :> <<"fr-CA", ",", "fr", ";", "q=0.8">>,
      body |-> <<"{}">>],
     [method |-> "GET", path |-> <<"/", "collections">>,
      args |-> EmptyDict,
      headers |-> ("Accept" :> <<"text/html", ";", "q=0.9", ",", " ",
                                 "application/json", ";", "q=0.1">>)
                  @@ ("Accept-Encoding" :> <<"gzip">>),
      body |-> <<>>]}

NoNative == [variant |-> "", method |-> "", path |-> <<>>, args |-> EmptyDict,
             headers |-> EmptyDict, body |-> <<>>, skip_valid_check |-> FALSE]

\* the native request type of a framework
VariantOf(b) == IF b = "flask" THEN "environ" ELSE "scope"

NoFuture == [state |-> "none", result |-> NoTriple, exception |-> ""]

\* what the opaque business-logic callable may return for an envelope
ApiResults(e) ==
    {[headers |-> get_response_headers(e, NoLocale, None, None, EmptyDict),
      status |-> 200, content |-> Content("str", <<"body">>)],
     [headers |-> get_response_headers(e, NoLocale, None, None,
                                       "Content-Encoding" :> F_GZIP),
      status |-> 200, content |-> Content("str", <<"body">>)]}

\* what it may raise
ApiExceptions == {"ProviderError", "RuntimeError"}

\* the pipeline steps, in the order the ordering guarantee names them
Rank(step) ==
    CASE step = "locale" -> 1
      [] step = "format" -> 2
      [] step = "valid" -> 3
      [] step = "invoke" -> 4
      [] step = "returned" -> 5
      [] step = "gzip" -> 6
      [] step = "materialize" -> 7

\* the loop thread kept by a coroutine that has ended, as a mutation of Release
ReleaseKept(r) == loopOwner

\* a step of the coroutine of request r runs on the event-loop thread
OnLoop(r) == backend = "starlette" => loopOwner = r

\* the event-loop thread is free to start or resume the coroutine of request r
LoopFree(r) == backend = "starlette" => loopOwner = 0

Acquire(r) == IF backend = "starlette" THEN r ELSE loopOwner

Release(r) == IF backend = "starlette" THEN 0 ELSE loopOwner

\* a request reaches the view: the native request and the call's options
Arrive(r) ==
    /\ pc[r] = "idle"
    /\ r > 1 => pc[r - 1] # "idle"
    /\ \E n \in NativeRequests, skip \in BOOLEAN :
          native' = [native EXCEPT ![r] =
                        [variant |-> VariantOf(backend), method |-> n.method,
                         path |-> n.path, args |-> n.args, headers |-> n.headers,
                         body |-> n.body, skip_valid_check |-> skip]]
    /\ pc' = [pc EXCEPT ![r] = "new"]
    /\ UNCHANGED <<call, module, locales, env, future, triple, response, raised, calls,
                   steps, loopOwner, backend>>

\* APIRequest.__init__, up to the path info
Begin(r) ==
    /\ pc[r] = "new"
    /\ LoopFree(r)
    /\ env' = [env EXCEPT ![r] = [NoEnvelope EXCEPT !.method = get_method(native[r]),
                                                     !.args = _get_params(native[r]),
                                                     !.path_info = PathInfo(native[r])]]
    /\ pc' = [pc EXCEPT ![r] = "args"]
    /\ loopOwner' = Acquire(r)
    /\ UNCHANGED <<call, module, locales, native, future, triple, response, raised, calls,
                   steps, backend>>

\* locale and format determined in the opposite order, as a mutation of
\* ResolveLocale
ResolveLocaleAfterFormat(r) ==
    /\ pc[r] = "args"
    /\ OnLoop(r)
    /\ LET res == _get_locale(env[r].args, native[r].headers, locales)
       IN  /\ env' = [env EXCEPT ![r].raw_locale = res.raw,
                                 ![r].locale = res.locale,
                                 ![r].format = _get_format(env[r].args,
                                                           native[r].headers)]
           /\ pc' = [pc EXCEPT ![r] = "format"]
           /\ steps' = [steps EXCEPT ![r] = @ \o <<"format", "locale">>]
    /\ UNCHANGED <<call, module, locales, native, future, triple, response, calls, backend,
                   raised, loopOwner>>

\* self._raw_locale, self._locale = self._get_locale(...)
ResolveLocale(r) ==
    /\ pc[r] = "args"
    /\ OnLoop(r)
    /\ LET res == _get_locale(env[r].args, native[r].headers, locales)
       IN  IF res.error # ""
           THEN /\ raised' = [raised EXCEPT ![r] = res.error]
                /\ pc' = [pc EXCEPT ![r] = "raised"]
                /\ loopOwner' = Release(r)
                /\ UNCHANGED <<env, steps>>
           ELSE /\ env' = [env EXCEPT ![r].raw_locale = res.raw,
                                      ![r].locale = res.locale]
                /\ pc' = [pc EXCEPT ![r] = "locale"]
                /\ steps' = [steps EXCEPT ![r] = Append(@, "locale")]
                /\ UNCHANGED <<raised, loopOwner>>
    /\ UNCHANGED <<call, module, locales, native, future, triple, response, calls, backend>>

\* self._format = self._get_format(request.headers)
NegotiateFormat(r) ==
    /\ pc[r] = "locale"
    /\ OnLoop(r)
    /\ env' = [env EXCEPT ![r].format = _get_format(env[r].args, native[r].headers)]
    /\ pc' = [pc EXCEPT ![r] = "format"]
    /\ steps' = [steps EXCEPT ![r] = Append(@, "format")]
    /\ UNCHANGED <<call, module, locales, native, future, triple, response, raised, calls,
                   loopOwner, backend>>

\* self._headers = self.get_request_headers(request.headers)
CopyHeaders(r) ==
    /\ pc[r] = "format"
    /\ OnLoop(r)
    /\ env' = [env EXCEPT ![r].headers = get_request_headers(native[r].headers)]
    /\ pc' = [pc EXCEPT ![r] = "headers"]
    /\ UNCHANGED <<call, module, locales, native, future, triple, response, raised, calls,
                   steps, loopOwner, backend>>

\* APIRequest.from_flask: the body is at hand
FromFlask(r) ==
    /\ backend = "flask"
    /\ pc[r] = "headers"
    /\ env' = [env EXCEPT ![r].data = native[r].body]
    /\ pc' = [pc EXCEPT ![r] = "constructed"]
    /\ UNCHANGED <<call, module, locales, native, future, triple, response, raised, calls,
                   steps, loopOwner, backend>>

\* APIRequest.from_starlette: await request.body() suspends the coroutine
AwaitBody(r) ==
    /\ backend = "starlette"
    /\ pc[r] = "headers"
    /\ loopOwner = r
    /\ pc' = [pc EXCEPT ![r] = "await_body"]
    /\ loopOwner' = 0
    /\ UNCHANGED <<call, module, locales, native, env, future, triple, response, raised,
                   calls, steps, backend>>

\* the body has been received: the coroutine resumes on the loop
BodyReady(r) ==
    /\ backend = "starlette"
    /\ pc[r] = "await_body"
    /\ loopOwner = 0
    /\ env' = [env EXCEPT ![r].data = native[r].body]
    /\ pc' = [pc EXCEPT ![r] = "constructed"]
    /\ loopOwner' = r
    /\ UNCHANGED <<call, module, locales, native, future, triple, response, raised, calls,
                   steps, backend>>

\* the test with the negation of is_valid() lost, as a mutation of
\* TakesFormatException
TakesFormatExceptionNegationLost(skip, e) == ~skip /\ is_valid(e.format, NoFormats)

\* not skip_valid_check and not api_request.is_valid()
TakesFormatException(skip, e) == ~skip /\ ~is_valid(e.format, NoFormats)

\* the if of execute_from_*: the format exception, or on to the API function
CheckValid(r) ==
    /\ pc[r] = "constructed"
    /\ OnLoop(r)
    /\ steps' = [steps EXCEPT ![r] = IF native[r].skip_valid_check THEN @
                                     ELSE Append(@, "valid")]
    /\ IF TakesFormatException(native[r].skip_valid_check, env[r])
       THEN /\ triple' = [triple EXCEPT ![r] = get_format_exception(env[r])]
            /\ module' = ModuleAfter(get_format_exception(env[r]).headers)
            /\ pc' = [pc EXCEPT ![r] = "materialize"]
       ELSE /\ pc' = [pc EXCEPT ![r] = "call"]
            /\ UNCHANGED <<triple, module>>
    /\ UNCHANGED <<call, locales, native, env, future, response, raised, calls,
                   loopOwner, backend>>

\* execute_from_flask: api_function(api_instance, api_request, *args), inline
InvokeFlask(r) ==
    /\ backend = "flask"
    /\ pc[r] = "call"
    /\ calls' = [calls EXCEPT ![r] = @ + 1]
    /\ future' = [future EXCEPT ![r].state = "running"]
    /\ pc' = [pc EXCEPT ![r] = "running"]
    /\ steps' = [steps EXCEPT ![r] = Append(@, "invoke")]
    /\ UNCHANGED <<call, module, locales, native, env, triple, response, raised, loopOwner,
                   backend>>

\* the API function called on the event-loop thread itself, as a mutation of
\* Submit
SubmitInline(r) ==
    /\ backend = "starlette"
    /\ pc[r] = "call"
    /\ loopOwner = r
    /\ calls' = [calls EXCEPT ![r] = @ + 1]
    /\ future' = [future EXCEPT ![r].state = "running"]
    /\ pc' = [pc EXCEPT ![r] = "running"]
    /\ steps' = [steps EXCEPT ![r] = Append(@, "invoke")]
    /\ UNCHANGED <<call, module, locales, native, env, triple, response, raised, loopOwner,
                   backend>>

\* execute_from_starlette: await loop.run_in_executor(None, call_api_threadsafe,
\* ...): the call is queued for a worker thread and the coroutine suspends
Submit(r) ==
    /\ backend = "starlette"
    /\ pc[r] = "call"
    /\ loopOwner = r
    /\ future' = [future EXCEPT ![r].state = "pending"]
    /\ pc' = [pc EXCEPT ![r] = "submitted"]
    /\ loopOwner' = 0
    /\ UNCHANGED <<call, module, locales, native, env, triple, response, raised, calls,
                   steps, backend>>

\* call_api_threadsafe on a worker thread: set_event_loop, then api_call(*args)
call_api_threadsafe(r) ==
    /\ backend = "starlette"
    /\ pc[r] = "submitted"
    /\ calls' = [calls EXCEPT ![r] = @ + 1]
    /\ future' = [future EXCEPT ![r].state = "running"]
    /\ pc' = [pc EXCEPT ![r] = "running"]
    /\ steps' = [steps EXCEPT ![r] = Append(@, "invoke")]
    /\ UNCHANGED <<call, module, locales, native, env, triple, response, raised, loopOwner,
                   backend>>

\* the API function returns its triple
ApiReturn(r) ==
    /\ pc[r] = "running"
    /\ \E t \in ApiResults(env[r]) :
          /\ module' = ModuleAfter(t.headers)
          /\ IF backend = "flask"
             THEN /\ triple' = [triple EXCEPT ![r] = t]
                  /\ future' = [future EXCEPT ![r].state = "done", ![r].result = t]
                  /\ pc' = [pc EXCEPT ![r] = "returned"]
             ELSE /\ future' = [future EXCEPT ![r].state = "done", ![r].result = t]
                  /\ pc' = [pc EXCEPT ![r] = "finished"]
                  /\ UNCHANGED triple
    /\ steps' = [steps EXCEPT ![r] = Append(@, "returned")]
    /\ UNCHANGED <<call, locales, native, env, response, raised, calls, loopOwner,
                   backend>>

\* the API function raises
ApiRaise(r) ==
    /\ pc[r] = "running"
    /\ \E x \in ApiExceptions :
          IF backend = "flask"
          THEN /\ raised' = [raised EXCEPT ![r] = x]
               /\ future' = [future EXCEPT ![r].state = "done", ![r].exception = x]
               /\ pc' = [pc EXCEPT ![r] = "raised"]
          ELSE /\ future' = [future EXCEPT ![r].state = "done", ![r].exception = x]
               /\ pc' = [pc EXCEPT ![r] = "finished"]
               /\ UNCHANGED raised
    /\ UNCHANGED <<call, module, locales, native, env, triple, response, calls, steps,
                   loopOwner, backend>>

\* the exception of the future turned into a 500 triple, as a mutation of Resume
ResumeTranslating(r) ==
    /\ backend = "starlette"
    /\ pc[r] = "finished"
    /\ loopOwner = 0
    /\ triple' = [triple EXCEPT ![r] =
                    IF future[r].exception # ""
                    THEN [headers |-> HEADERS, status |-> 500,
                          content |-> Content("str", <<future[r].exception>>)]
                    ELSE future[r].result]
    /\ pc' = [pc EXCEPT ![r] = "returned"]
    /\ loopOwner' = r
    /\ UNCHANGED <<call, module, locales, native, env, future, response, calls, steps,
                   backend, raised>>

\* the awaited future is done: the coroutine resumes with the result, or the
\* future's exception is raised in it and leaves execute_from_starlette
Resume(r) ==
    /\ backend = "starlette"
    /\ pc[r] = "finished"
    /\ loopOwner = 0
    /\ IF future[r].exception # ""
       THEN /\ raised' = [raised EXCEPT ![r] = future[r].exception]
            /\ pc' = [pc EXCEPT ![r] = "raised"]
            /\ UNCHANGED <<triple, loopOwner>>
       ELSE /\ triple' = [triple EXCEPT ![r] = future[r].result]
            /\ pc' = [pc EXCEPT ![r] = "returned"]
            /\ loopOwner' = r
            /\ UNCHANGED raised
    /\ UNCHANGED <<call, module, locales, native, env, future, response, calls, steps,
                   backend>>

\* the content compressed whatever the headers say, as a mutation of ApplyGzip
ApplyGzipAlways(r) ==
    /\ pc[r] = "returned"
    /\ OnLoop(r)
    /\ triple' = [triple EXCEPT ![r].content = Compress(Encode(triple[r].content))]
    /\ pc' = [pc EXCEPT ![r] = "materialize"]
    /\ steps' = [steps EXCEPT ![r] = Append(@, "gzip")]
    /\ UNCHANGED <<call, module, locales, native, env, future, response, raised, calls,
                   loopOwner, backend>>

\* content = apply_gzip(headers, content)
ApplyGzip(r) ==
    /\ pc[r] = "returned"
    /\ OnLoop(r)
    /\ triple' = [triple EXCEPT ![r].content =
                     apply_gzip(triple[r].headers, triple[r].content)]
    /\ pc' = [pc EXCEPT ![r] = "materialize"]
    /\ steps' = [steps EXCEPT ![r] = Append(@, "gzip")]
    /\ UNCHANGED <<call, module, locales, native, env, future, response, raised, calls,
                   loopOwner, backend>>

\* make_response(content, status) with the headers, or _to_response
Materialize(r) ==
    /\ pc[r] = "materialize"
    /\ OnLoop(r)
    /\ response' = [response EXCEPT ![r] = ToResponse(backend, triple[r])]
    /\ pc' = [pc EXCEPT ![r] = "done"]
    /\ steps' = [steps EXCEPT ![r] = Append(@, "materialize")]
    /\ loopOwner' = Release(r)
    /\ UNCHANGED <<call, module, locales, native, env, future, triple, raised, calls,
                   backend>>

-----------------------------------------------------------------------------
(* APIRequest.__init__, with_data, get_linkrel, pre_process *)

\* the assignments of __init__, given the result loc of _get_locale: the
\* envelope, or the error raised
Assigned(request, loc) ==
    IF loc.error # "" THEN [error |-> loc.error, envelope |-> NoEnvelope]
    ELSE [error |-> "",
          envelope |-> [method |-> get_method(request),
                        data |-> <<>>,
                        args |-> _get_params(request),
                        path_info |-> PathInfo(request),
                        raw_locale |-> loc.raw,
                        locale |-> loc.locale,
                        format |-> _get_format(_get_params(request), request.headers),
                        headers |-> get_request_headers(request.headers)]]

\* APIRequest(request, supported_locales)
APIRequest(request, supported_locales) ==
    Assigned(request,
             _get_locale(_get_params(request), request.headers, supported_locales))

\* the assignment of _data in with_data, given the api_req just constructed:
\* the data of a Flask request, the body of a Django request, or the awaited
\* body of a Starlette request, which is left out when the module nest_asyncio
\* is not installed
DataSet(api_req, request, nest_asyncio) ==
    IF api_req.error # "" THEN api_req
    ELSE IF request.variant = "scope" /\ ~nest_asyncio THEN api_req
    ELSE [api_req EXCEPT !.envelope.data = request.body]

\* APIRequest.with_data
with_data(request, supported_locales, nest_asyncio) ==
    DataSet(APIRequest(request, supported_locales), request, nest_asyncio)

get_linkrel(e, format_) ==
    LET fmt == Lower(format_)
    IN  IF fmt = e.format \/ (fmt = F_JSON /\ ~Truthy(e.format)) THEN "self"
        ELSE "alternate"

\* getattr(cls, 'locales', set()): set() is not subscriptable, and the
\* TypeError of supported_locales[0] is caught as the IndexError of [] is
Getattr_locales(cls) == IF cls.has_locales THEN cls.locales ELSE <<>>

\* django_.views.adapt_django_request_to_pygeoapi: HttpResponse(content,
\* status=status), then response[key] = value for every header
HttpResponse(headers, status, content) ==
    [kind |-> "HttpResponse", status |-> status,
     headers |-> Update("Content-Type" :> <<"text/html", ";", " ", "charset=utf-8">>,
                        headers),
     body |-> content]

-----------------------------------------------------------------------------
(* Calls that construct an envelope, and calls on a constructed envelope *)

FnPaths == {<<"/">>, <<"/", "collections", "/">>, <<"collections", "/", "obs">>}

FnArgs == {EmptyDict, "f" :> <<"html">>, "f" :> <<"bogus">>, "lang" :> <<"fr">>}

FnHeaders ==
    {EmptyDict,
     "Accept-Encoding" :> <<"gzip", ",", " ", "deflate">>,
     "Accept-Language" :> <<"fr-CA">>,
     ("Accept" :> <<"text/html">>) @@ ("Accept-Encoding" :> <<"gzip">>)}

\* native requests of the three frameworks: every path with every variant, and
\* every combination of query parameters and headers
FnRequests ==
    {[variant |-> v, method |-> "GET", path |-> p, args |-> EmptyDict,
      headers |-> EmptyDict, body |-> <<>>] : v \in Variants, p \in FnPaths}
    \cup {[variant |-> v, method |-> "POST", path |-> <<"/", "processes", "/">>,
           args |-> a, headers |-> h, body |-> <<"{}">>] :
             v \in {"environ", "path_info"}, a \in FnArgs, h \in FnHeaders}

\* an envelope has been constructed and handed to the caller, and no response
\* has been materialized yet
Constructed ==
    /\ call.envelope.method # ""
    /\ call.op \notin {"_to_response", "adapt_django_request_to_pygeoapi"}

\* the record of a call on the constructed envelope
OnEnvelope(op, input, result) ==
    [NoCall EXCEPT !.op = op, !.request = call.request, !.supported = call.supported,
                   !.envelope = call.envelope, !.input = input, !.result = result]

\* the record of a call that constructs an envelope, given its outcome
Construction(op, q, supported, res) ==
    [NoCall EXCEPT !.op = op, !.request = q, !.supported = supported,
                   !.envelope = res.envelope, !.result = res.error]

\* the objects whose methods pre_process decorates: with the attribute
\* locales, or without it
Classes == {[has_locales |-> has, locales |-> locales] : has \in BOOLEAN}

\* APIRequest.with_data(request, supported_locales), called by an adapter with
\* the locales of the API, or by the inner function of pre_process with
\* getattr(cls, 'locales', set())
CallWithData ==
    /\ call.op = "none"
    /\ \E q \in FnRequests, nest_asyncio \in BOOLEAN, cls \in Classes,
          caller \in {"with_data", "pre_process"} :
          call' = Construction(caller, q,
                               IF caller = "pre_process" THEN Getattr_locales(cls)
                               ELSE locales,
                               with_data(q,
                                         IF caller = "pre_process"
                                         THEN Getattr_locales(cls) ELSE locales,
                                         nest_asyncio))
    /\ UNCHANGED pipelineVars

\* get_linkrel keeping the lower-cased format in self._format, as a mutation
\* of CallGetLinkrel
CallGetLinkrelStoring ==
    /\ Constructed
    /\ \E f \in {<<"json">>, <<"JSON">>, <<"html">>} :
          call' = [OnEnvelope("get_linkrel", f, get_linkrel(call.envelope, f))
                       EXCEPT !.envelope.format = Lower(f)]
    /\ UNCHANGED pipelineVars

\* api_request.get_linkrel(format_)
CallGetLinkrel ==
    /\ Constructed
    /\ \E f \in {<<"json">>, <<"JSON">>, <<"html">>} :
          call' = OnEnvelope("get_linkrel", f, get_linkrel(call.envelope, f))
    /\ UNCHANGED pipelineVars

ForceLangs == {NoLocale, Locale("fr", "")}

ForceTypes == {None, <<"text/html", ";", "charset=utf-8">>}

ForceEncodings == {None, <<"deflate">>}

CustomHeaders ==
    {EmptyDict, "Content-Type" :> <<"image/tiff">>, "Content-Encoding" :> F_GZIP,
     "Content-Language" :> <<"de">>}

\* api_request.get_response_headers(force_lang, force_type, force_encoding,
\* **custom_headers)
CallGetResponseHeaders ==
    /\ Constructed
    /\ \E fl \in ForceLangs, ft \in ForceTypes, fe \in ForceEncodings,
          ch \in CustomHeaders :
          LET h == get_response_headers(call.envelope, fl, ft, fe, ch)
          IN  /\ call' = OnEnvelope("get_response_headers",
                                     [force_lang |-> fl, force_type |-> ft,
                                      force_encoding |-> fe, custom_headers |-> ch],
                                     h)
              /\ module' = ModuleAfter(h)
    /\ UNCHANGED handlerVars

\* api_request.get_request_headers(headers)
CallGetRequestHeaders ==
    /\ Constructed
    /\ \E h \in FnHeaders :
          call' = OnEnvelope("get_request_headers", h, get_request_headers(h))
    /\ UNCHANGED pipelineVars

\* the properties data, params, path_info, locale, raw_locale, format, headers
Property(e, name) ==
    CASE name = "data" -> e.data
      [] name = "params" -> e.args
      [] name = "path_info" -> e.path_info
      [] name = "locale" -> e.locale
      [] name = "raw_locale" -> e.raw_locale
      [] name = "format" -> e.format
      [] name = "headers" -> e.headers

ReadProperty ==
    /\ Constructed
    /\ \E name \in {"data", "params", "path_info", "locale", "raw_locale", "format",
                    "headers"} :
          call' = OnEnvelope("property", name, Property(call.envelope, name))
    /\ UNCHANGED pipelineVars

\* _to_response(headers, status, content), on headers that
\* get_response_headers returned for the envelope's own language and encoding
Call_to_response ==
    /\ call.op = "get_response_headers"
    /\ call.input.force_lang = NoLocale
    /\ call.input.force_encoding = None
    /\ \E status \in {200, 400}, kind \in {"dict", "str", "bytes"} :
          LET content == Content(kind, <<"body">>)
          IN  call' = OnEnvelope("_to_response",
                                 [headers |-> call.result, status |-> status,
                                  content |-> content],
                                 _to_response(call.result, status, content))
    /\ UNCHANGED pipelineVars

\* the wrapper of adapt_django_request_to_pygeoapi, after its call of
\* with_data on a Django request: the view function, then the HttpResponse
CallDjangoView ==
    /\ call.op = "with_data"
    /\ call.request.variant = "path_info"
    /\ \E t \in ApiResults(call.envelope) :
          /\ call' = OnEnvelope("adapt_django_request_to_pygeoapi", t,
                                HttpResponse(t.headers, t.status, t.content))
          /\ module' = ModuleAfter(t.headers)
    /\ UNCHANGED handlerVars

-----------------------------------------------------------------------------
(* pygeoapi.conf: the configuration objects and their get *)

\* the value stored under a name, and a bound method of a class
Val(name) == <<"value of", name>>

Method(name) == <<"bound method", name>>

\* the names a class body defines: what getattr finds on the class when the
\* instance has no attribute of that name
ClassAttributes(impl) ==
    IF impl = "default" THEN {"__iter__", "__getitem__", "get", "from_dict"}
    ELSE {"__iter__", "__getitem__", "get"}

\* the classes of readwrite.py that keep their values in a DictProxy and
\* define __getattr__ over it
DictBacked ==
    {"MetadataIdentification", "MetadataLicense", "MetadataProvider",
     "MetadataContact", "Map", "ProcessManager"}

\* a configuration object: the implementation, the protocol it stands for, the
\* attributes of the instance, and the entries of its shared dict
ConfObject(impl, cls, attrs, shared) ==
    [impl |-> impl, cls |-> cls,
     dict |-> [k \in attrs |-> Val(k)],
     shared |-> [k \in shared |-> Val(k)]]

\* the fields of the section classes
SectionFields(cls) ==
    CASE cls = "MetadataIdentification" -> {"title", "url"}
      [] cls = "MetadataLicense" -> {"name", "url"}
      [] cls = "MetadataProvider" -> {"name", "url"}
      [] cls = "MetadataContact" -> {"name", "hours_of_service"}
      [] cls = "Metadata" -> {"identification", "license", "provider", "contact"}
      [] cls = "Logging" -> {"level"}
      [] cls = "ServerBind" -> {"host", "port"}
      [] cls = "ProcessManager" -> {"name", "processes"}
      [] cls = "Map" -> {"url", "attribution"}
      [] cls = "Server" -> {"public_url", "templates_path", "static_path", "map"}
      [] cls = "Configuration" -> {"metadata", "logging", "server", "resources"}

\* the dataclasses of conf/__init__.py
DefaultClasses ==
    {"MetadataIdentification", "MetadataLicense", "MetadataProvider",
     "MetadataContact", "Metadata", "Logging", "ServerBind", "ProcessManager",
     "Map", "Server", "Configuration"}

\* the classes of conf/readwrite.py
SharedClasses == DictBacked \cup {"Metadata", "Server", "Configuration"}

\* the keys of the configuration file, as update() leaves them in a shared dict
FileKeys(cls) ==
    IF cls = "MetadataContact" THEN {"name", "hours"} ELSE SectionFields(cls)

\* the configuration objects of a process
ConfObjects ==
    {ConfObject("default", c, SectionFields(c), {}) : c \in DefaultClasses}
    \cup {ConfObject("shared", c, {"_shared"}, FileKeys(c)) : c \in DictBacked}
    \cup {ConfObject("shared", c, {"_shared"}, {"name"}) : c \in DictBacked}
    \cup {ConfObject("shared", "Metadata", SectionFields("Metadata"), {}),
          ConfObject("shared", "Server", {"_shared", "map", "process_manager"},
                     {"url"}),
          ConfObject("shared", "Configuration", {"metadata", "logging", "server"},
                     {})}

\* _get_compat_key_name of the contact and of the server configuration
_get_compat_key_name(cls, key) ==
    IF cls = "MetadataContact"
    THEN CASE key = "stateorprovince" -> "state_or_province"
           [] key = "postalcode" -> "postal_code"
           [] key = "hours" -> "hours_of_service"
           [] OTHER -> key
    ELSE IF cls = "Server"
    THEN CASE key = "admin" -> "enable_admin"
           [] key = "cors" -> "enable_cors"
           [] key = "gzip" -> "gzip_responses"
           [] key = "manager" -> "process_manager"
           [] key = "pretty_print" -> "pretty_print_responses"
           [] key = "url" -> "public_url"
           [] OTHER -> key
    ELSE key

\* the outcome of a lookup: a value, or the exception raised
Found(v) == [error |-> "", value |-> v]

Raises(x) == [error |-> x, value |-> None]

\* getattr(obj, name): the instance's attribute, else the attribute of the
\* class, else __getattr__ where the class defines it
getattr(obj, name) ==
    IF name \in DOMAIN obj.dict THEN Found(obj.dict[name])
    ELSE IF name \in ClassAttributes(obj.impl) THEN Found(Method(name))
    ELSE IF obj.impl = "shared" /\ obj.cls \in DictBacked
              /\ name \in DOMAIN obj.shared
    THEN Found(obj.shared[name])
    ELSE Raises("AttributeError")

\* try: return getattr(self, name); except AttributeError: raise KeyError()
GetattrOrKeyError(obj, name) ==
    IF getattr(obj, name).error = "AttributeError" THEN Raises("KeyError")
    ELSE getattr(obj, name)

\* obj.__getitem__(key)
__getitem__(obj, key) ==
    IF obj.impl = "shared" /\ obj.cls \in DictBacked
    THEN IF key \in DOMAIN obj.shared THEN Found(obj.shared[key])
         ELSE Raises("KeyError")
    ELSE IF obj.impl = "default" /\ obj.cls = "Server" /\ key = "templates"
    THEN Found(<<"path">> \o obj.dict["templates_path"]
               \o <<"static">> \o obj.dict["static_path"])
    ELSE IF obj.impl = "default"
    THEN GetattrOrKeyError(obj, _get_compat_key_name(obj.cls, key))
    ELSE GetattrOrKeyError(obj, key)

\* DictProxy.get(key): the entry, or None
DictGet(d, key) == IF key \in DOMAIN d THEN Found(d[key]) ELSE Found(None)

\* try: return <lookup>; except KeyError: return default
OrDefault(res, default) == IF res.error = "KeyError" THEN Found(default) ELSE res

\* obj.get(key, default)
ConfGet(obj, key, default) ==
    IF obj.impl = "shared" /\ obj.cls = "Configuration"
    THEN Raises("AttributeError")
    ELSE IF obj.impl = "shared" /\ obj.cls \in DictBacked
    THEN OrDefault(DictGet(obj.shared, key), default)
    ELSE IF obj.impl = "default" /\ obj.cls = "MetadataContact"
    THEN OrDefault(__getitem__(obj, _get_compat_key_name(obj.cls, key)), default)
    ELSE OrDefault(__getitem__(obj, key), default)

\* the keys asked of a configuration object, and the defaults given
ConfKeys == {"name", "url", "title", "hours", "hours_of_service", "templates",
             "map", "server", "level", "missing", "get"}

ConfDefaults == {None, <<"fallback">>}

\* conf.get(key, default)
CallConfGet ==
    /\ \E obj \in ConfObjects, key \in ConfKeys, default \in ConfDefaults :
          call' = [NoCall EXCEPT !.op = "get",
                                 !.input = [obj |-> obj, key |-> key,
                                            default |-> default],
                                 !.result = ConfGet(obj, key, default)]
    /\ UNCHANGED pipelineVars

-----------------------------------------------------------------------------
(* starlette_application.middleware: ApiRulesMiddleware *)

\* str.endswith
endswith(s, c) == s # <<>> /\ s[Len(s)] = c

\* the redirect that leaves the path as it is, as a mutation of RedirectPath
RedirectPathSame(path) == path

\* f"{path}/"
RedirectPath(path) == path \o <<"/">>

\* the test without its comparison with the prefix, as a mutation of
\* TrailingSlash
TrailingSlashAny(path, prefix) == endswith(path, "/")

\* path != f"{self.prefix}/" and path.endswith('/')
TrailingSlash(path, prefix) == path # prefix \o <<"/">> /\ endswith(path, "/")

NoScope == [type |-> "", path |-> <<>>]

\* what the middleware did with a scope: the response it sent itself, or the
\* scope it handed to the wrapped application
Redirected(location) ==
    [outcome |-> "redirect", status |-> 307, location |-> location,
     forwarded |-> NoScope, app_calls |-> 0]

NotFound ==
    [outcome |-> "response", status |-> 404, location |-> <<>>,
     forwarded |-> NoScope, app_calls |-> 0]

Forwarded(scope) ==
    [outcome |-> "app", status |-> 0, location |-> <<>>,
     forwarded |-> scope, app_calls |-> 1]

\* ApiRulesMiddleware.__call__
ApiRulesMiddleware(scope, prefix, use_strict_slashes) ==
    IF scope.type = "http" /\ use_strict_slashes
    THEN IF scope.path = prefix THEN Redirected(RedirectPath(scope.path))
         ELSE IF TrailingSlash(scope.path, prefix) THEN NotFound
         ELSE Forwarded(scope)
    ELSE Forwarded(scope)

\* the URL prefixes get_url_prefix('starlette') gives: none, or /api
Prefixes == {<<>>, <<"/", "api">>}

ScopeTypes == {"http", "websocket", "lifespan"}

ScopePaths ==
    {<<>>, <<"/">>, <<"/", "api">>, <<"/", "api", "/">>,
     <<"/", "api", "/", "collections">>, <<"/", "api", "/", "collections", "/">>,
     <<"/", "collections">>, <<"/", "collections", "/">>,
     <<"/", "api", "/", "/">>}

\* redirects that one client follows in a row
MaxHops == 3

\* a scope reaches the middleware
CallMiddleware ==
    /\ \E type \in ScopeTypes, path \in ScopePaths, prefix \in Prefixes,
          strict \in BOOLEAN :
          call' = [NoCall EXCEPT
                     !.op = "ApiRulesMiddleware",
                     !.input = [scope |-> [type |-> type, path |-> path],
                                prefix |-> prefix, strict |-> strict, hops |-> 0],
                     !.result = ApiRulesMiddleware([type |-> type, path |-> path],
                                                   prefix, strict)]
    /\ UNCHANGED pipelineVars

\* the client follows the redirect: its next request has the path of the
\* Location it was given
FollowRedirect ==
    /\ call.op = "ApiRulesMiddleware"
    /\ call.result.outcome = "redirect"
    /\ call.input.hops < MaxHops
    /\ call' = [call EXCEPT
                  !.input.scope.path = call.result.location,
                  !.input.hops = @ + 1,
                  !.result = ApiRulesMiddleware(
                                 [type |-> call.input.scope.type,
                                  path |-> call.result.location],
                                 call.input.prefix, call.input.strict)]
    /\ UNCHANGED pipelineVars

-----------------------------------------------------------------------------
(* The views: collection_items *)

\* a view's call of a business-logic function: the function, its positional
\* arguments after the request, and the skip_valid_check flag
Dispatch(fn, args, skip) == [fn |-> fn, args |-> args, skip |-> skip]

\* the view returns None without calling anything
NoDispatch == Dispatch("", <<>>, FALSE)

\* collection_items of starlette_application/core.py and of the Flask
\* extension's views/core.py, which have the same branches
collection_items(method, has_item, content_type) ==
    IF ~has_item
    THEN IF method = "POST"
         THEN IF content_type # None
              THEN IF content_type = <<"application/geo+json">>
                   THEN Dispatch("manage_collection_item",
                                 <<"create", "collection_id">>, TRUE)
                   ELSE Dispatch("get_collection_items", <<"collection_id">>, TRUE)
              ELSE NoDispatch
         ELSE IF method = "OPTIONS"
         THEN Dispatch("manage_collection_item", <<"options", "collection_id">>, TRUE)
         ELSE Dispatch("get_collection_items", <<"collection_id">>, TRUE)
    ELSE IF method = "DELETE"
    THEN Dispatch("manage_collection_item",
                  <<"delete", "collection_id", "item_id">>, TRUE)
    ELSE IF method = "PUT"
    THEN Dispatch("manage_collection_item",
                  <<"update", "collection_id", "item_id">>, TRUE)
    ELSE IF method = "OPTIONS"
    THEN Dispatch("manage_collection_item",
                  <<"options", "collection_id", "item_id">>, TRUE)
    ELSE Dispatch("get_collection_item", <<"collection_id", "item_id">>, FALSE)

\* collection_items of flask_app.py, on the envelope the decorator built
collection_items_flask_app(method, has_item, content_type) ==
    IF ~has_item
    THEN IF method = "GET"
         THEN Dispatch("get_collection_items", <<"collection_id">>, FALSE)
         ELSE IF method = "POST"
         THEN IF content_type # None
              THEN IF content_type = <<"application/geo+json">>
                   THEN Dispatch("manage_collection_item",
                                 <<"create", "collection_id">>, FALSE)
                   ELSE Dispatch("post_collection_items", <<"collection_id">>, FALSE)
              ELSE NoDispatch
         ELSE IF method = "OPTIONS"
         THEN Dispatch("manage_collection_item", <<"options", "collection_id">>, FALSE)
         ELSE NoDispatch
    ELSE IF method = "DELETE"
    THEN Dispatch("manage_collection_item",
                  <<"delete", "collection_id", "item_id">>, FALSE)
    ELSE IF method = "PUT"
    THEN Dispatch("manage_collection_item",
                  <<"update", "collection_id", "item_id">>, FALSE)
    ELSE IF method = "OPTIONS"
    THEN Dispatch("manage_collection_item",
                  <<"options", "collection_id", "item_id">>, FALSE)
    ELSE Dispatch("get_collection_item", <<"collection_id", "item_id">>, FALSE)

\* collection_items of django_/views.py, which takes no item_id
collection_items_django(method, content_type) ==
    IF method = "GET"
    THEN Dispatch("get_collection_items", <<"collection_id">>, FALSE)
    ELSE IF method = "POST"
    THEN IF content_type # None
         THEN IF content_type = <<"application/geo+json">>
              THEN Dispatch("manage_collection_item",
                            <<"create", "collection_id">>, FALSE)
              ELSE Dispatch("post_collection_items", <<"collection_id">>, FALSE)
         ELSE NoDispatch
    ELSE IF method = "OPTIONS"
    THEN Dispatch("manage_collection_item", <<"options", "collection_id">>, FALSE)
    ELSE NoDispatch

\* the modules that define a collection_items view
ItemsViews == {"starlette", "flask_extension", "flask_app", "django"}

\* the methods the two items routes accept
ItemsMethods(has_item) ==
    IF has_item THEN {"GET", "PUT", "DELETE", "OPTIONS"}
    ELSE {"GET", "POST", "OPTIONS"}

\* values of the Content-Type request header, its absence included
ContentTypes == {None, <<"application/geo+json">>, <<"application/json">>}

\* the collection_items view of one of the modules
ItemsView(view, method, has_item, content_type) ==
    IF view = "flask_app"
    THEN collection_items_flask_app(method, has_item, content_type)
    ELSE IF view = "django" THEN collection_items_django(method, content_type)
    ELSE collection_items(method, has_item, content_type)

\* a request accepted by one of the items routes reaches the view
CallCollectionItems ==
    /\ call = NoCall
    /\ \E view \in ItemsViews, has_item \in BOOLEAN, content_type \in ContentTypes :
          \E method \in ItemsMethods(has_item) :
              /\ view = "django" => ~has_item
              /\ call' = [NoCall EXCEPT
                            !.op = "collection_items",
                            !.input = [view |-> view, method |-> method,
                                       has_item |-> has_item,
                                       content_type |-> content_type],
                            !.result = ItemsView(view, method, has_item,
                                                 content_type)]
    /\ UNCHANGED pipelineVars

-----------------------------------------------------------------------------
(* The views: the routes of the Flask extension and of Starlette *)

\* a route: its path template, the view bound to it, the methods it declares
\* (GET where it declares none), the path parameters it binds and its last
\* path segment.  Starlette's tile_matrix binds the segment Flask calls
\* tileMatrix; the table names it tileMatrix.
Route(path, view, methods, params, last) ==
    [path |-> path, view |-> view, methods |-> methods, params |-> params,
     last |-> last]

\* the routes of views/core.py, which are those of starlette core.routes
CoreRoutes ==
    { Route("/", "landing_page", {"GET"}, {}, ""),
      Route("/openapi", "openapi", {"GET"}, {}, "openapi"),
      Route("/conformance", "conformance", {"GET"}, {}, "conformance"),
      Route("/TileMatrixSets/{tileMatrixSetId}", "get_tilematrix_set", {"GET"}, {"tileMatrixSetId"}, "{tileMatrixSetId}"),
      Route("/TileMatrixSets", "get_tilematrix_sets", {"GET"}, {}, "TileMatrixSets"),
      Route("/collections/{collection_id}/schema", "collection_schema", {"GET"}, {"collection_id"}, "schema"),
      Route("/collections/{collection_id}/queryables", "collection_queryables", {"GET"}, {"collection_id"}, "queryables"),
      Route("/collections/{collection_id}/tiles", "get_collection_tiles", {"GET"}, {"collection_id"}, "tiles"),
      Route("/collections/{collection_id}/tiles/{tileMatrixSetId}", "get_collection_tiles_metadata", {"GET"}, {"collection_id", "tileMatrixSetId"}, "{tileMatrixSetId}"),
      Route("/collections/{collection_id}/tiles/{tileMatrixSetId}/metadata", "get_collection_tiles_metadata", {"GET"}, {"collection_id", "tileMatrixSetId"}, "metadata"),
      Route("/collections/{collection_id}/tiles/{tileMatrixSetId}/{tileMatrix}/{tileRow}/{tileCol}", "get_collection_tiles_data", {"GET"}, {"collection_id", "tileMatrixSetId", "tileMatrix", "tileRow", "tileCol"}, "{tileCol}"),
      Route("/collections/{collection_id}/items", "collection_items", {"GET", "POST", "OPTIONS"}, {"collection_id"}, "items"),
      Route("/collections/{collection_id}/items/{item_id}", "collection_items", {"GET", "PUT", "DELETE", "OPTIONS"}, {"collection_id", "item_id"}, "{item_id}"),
      Route("/collections/{collection_id}/coverage", "collection_coverage", {"GET"}, {"collection_id"}, "coverage"),
      Route("/collections/{collection_id}/map", "collection_map", {"GET"}, {"collection_id"}, "map"),
      Route("/collections/{collection_id}/styles/{style_id}/map", "collection_map", {"GET"}, {"collection_id", "style_id"}, "map"),
      Route("/processes", "get_processes", {"GET"}, {}, "processes"),
      Route("/processes/{process_id}", "get_processes", {"GET"}, {"process_id"}, "{process_id}"),
      Route("/jobs", "get_jobs", {"GET"}, {}, "jobs"),
      Route("/jobs/{job_id}", "get_jobs", {"GET", "DELETE"}, {"job_id"}, "{job_id}"),
      Route("/processes/{process_id}/execution", "execute_process_jobs", {"POST"}, {"process_id"}, "execution"),
      Route("/jobs/{job_id}/results", "get_job_result", {"GET"}, {"job_id"}, "results"),
      Route("/collections/{collection_id}/position", "get_collection_edr_query", {"GET"}, {"collection_id"}, "position"),
      Route("/collections/{collection_id}/area", "get_collection_edr_query", {"GET"}, {"collection_id"}, "area"),
      Route("/collections/{collection_id}/cube", "get_collection_edr_query", {"GET"}, {"collection_id"}, "cube"),
      Route("/collections/{collection_id}/radius", "get_collection_edr_query", {"GET"}, {"collection_id"}, "radius"),
      Route("/collections/{collection_id}/trajectory", "get_collection_edr_query", {"GET"}, {"collection_id"}, "trajectory"),
      Route("/collections/{collection_id}/corridor", "get_collection_edr_query", {"GET"}, {"collection_id"}, "corridor"),
      Route("/collections/{collection_id}/locations", "get_collection_edr_query", {"GET"}, {"collection_id"}, "locations"),
      Route("/collections/{collection_id}/locations/{location_id}", "get_collection_edr_query", {"GET"}, {"collection_id", "location_id"}, "{location_id}"),
      Route("/collections/{collection_id}/instances", "get_collection_edr_query", {"GET"}, {"collection_id"}, "instances"),
      Route("/collections/{collection_id}/instances/{instance_id}", "get_collection_edr_query", {"GET"}, {"collection_id", "instance_id"}, "{instance_id}"),
      Route("/collections/{collection_id}/instances/{instance_id}/position", "get_collection_edr_query", {"GET"}, {"collection_id", "instance_id"}, "position"),
      Route("/collections/{collection_id}/instances/{instance_id}/area", "get_collection_edr_query", {"GET"}, {"collection_id", "instance_id"}, "area"),
      Route("/collections/{collection_id}/instances/{instance_id}/cube", "get_collection_edr_query", {"GET"}, {"collection_id", "instance_id"}, "cube"),
      Route("/collections/{collection_id}/instances/{instance_id}/radius", "get_collection_edr_query", {"GET"}, {"collection_id", "instance_id"}, "radius"),
      Route("/collections/{collection_id}/instances/{instance_id}/trajectory", "get_collection_edr_query", {"GET"}, {"collection_id", "instance_id"}, "trajectory"),
      Route("/collections/{collection_id}/instances/{instance_id}/corridor", "get_collection_edr_query", {"GET"}, {"collection_id", "instance_id"}, "corridor"),
      Route("/collections/{collection_id}/instances/{instance_id}/locations", "get_collection_edr_query", {"GET"}, {"collection_id", "instance_id"}, "locations"),
      Route("/collections/{collection_id}/instances/{instance_id}/locations/{location_id}", "get_collection_edr_query", {"GET"}, {"collection_id", "instance_id", "location_id"}, "{location_id}"),
      Route("/collections", "collections", {"GET"}, {}, "collections"),
      Route("/collections/{collection_id}", "collections", {"GET"}, {"collection_id"}, "{collection_id}"),
      Route("/stac", "stac_catalog_root", {"GET"}, {}, "stac"),
      Route("/stac/{path}", "stac_catalog_path", {"GET"}, {"path"}, "{path}") }

\* the routes of views/admin.py, which are those of starlette admin.routes
\* under the /admin mount
AdminRoutes ==
    { Route("/admin/config", "admin_config", {"GET", "PUT", "PATCH"}, {}, "config"),
      Route("/admin/config/resources", "admin_config_resources", {"GET", "POST"}, {}, "resources"),
      Route("/admin/config/resources/{resource_id}", "admin_config_resource", {"GET", "PUT", "PATCH", "DELETE"}, {"resource_id"}, "{resource_id}") }

\* the value a view has for a path parameter: None where the route binds none
Arg(route, name) == IF name \in route.params THEN name ELSE "<None>"

\* the last path segment as the request's path has it
LastSegment(route) ==
    IF route.last \in {"{" \o p \o "}" : p \in route.params}
    THEN CHOOSE p \in route.params : route.last = "{" \o p \o "}"
    ELSE route.last

\* get_collection_edr_query of views/core.py
flask_get_collection_edr_query(route, ends_with_instance) ==
    IF \/ route.last = "instances"
       \/ Arg(route, "instance_id") # "<None>" /\ ends_with_instance
    THEN Dispatch("environmental_data_retrieval.get_collection_edr_instances",
                  <<Arg(route, "collection_id"), Arg(route, "instance_id")>>, FALSE)
    ELSE Dispatch("environmental_data_retrieval.get_collection_edr_query",
                  <<Arg(route, "collection_id"), Arg(route, "instance_id"),
                    IF Arg(route, "location_id") # "<None>" THEN "locations"
                    ELSE LastSegment(route),
                    Arg(route, "location_id")>>, TRUE)

\* get_collection_edr_query of starlette_application/core.py
starlette_get_collection_edr_query(route, ends_with_instance) ==
    IF \/ route.last = "instances"
       \/ Arg(route, "instance_id") # "<None>" /\ ends_with_instance
    THEN Dispatch("environmental_data_retrieval.get_collection_edr_instances",
                  <<Arg(route, "collection_id"), Arg(route, "instance_id")>>, FALSE)
    ELSE Dispatch("environmental_data_retrieval.get_collection_edr_query",
                  <<Arg(route, "collection_id"), Arg(route, "instance_id"),
                    IF "location_id" \in route.params THEN "locations"
                    ELSE LastSegment(route),
                    Arg(route, "location_id")>>, TRUE)

\* the views of the Flask extension's views/core.py
flask_core(route, method, content_type, ends_with_instance) ==
    CASE route.view = "landing_page" -> Dispatch("landing_page", <<>>, FALSE)
      [] route.view = "openapi" -> Dispatch("openapi_", <<>>, FALSE)
      [] route.view = "conformance" -> Dispatch("conformance", <<>>, FALSE)
      [] route.view = "get_tilematrix_set" ->
            Dispatch("tiles.tilematrixset", <<Arg(route, "tileMatrixSetId")>>, FALSE)
      [] route.view = "get_tilematrix_sets" ->
            Dispatch("tiles.tilematrixsets", <<>>, FALSE)
      [] route.view = "collections" ->
            Dispatch("describe_collections", <<Arg(route, "collection_id")>>, FALSE)
      [] route.view = "collection_schema" ->
            Dispatch("get_collection_schema", <<Arg(route, "collection_id")>>, FALSE)
      [] route.view = "collection_queryables" ->
            Dispatch("itemtypes.get_collection_queryables",
                     <<Arg(route, "collection_id")>>, FALSE)
      [] route.view = "collection_items" ->
            collection_items(method, "item_id" \in route.params, content_type)
      [] route.view = "collection_coverage" ->
            Dispatch("coverages.get_collection_coverage",
                     <<Arg(route, "collection_id")>>, TRUE)
      [] route.view = "get_collection_tiles" ->
            Dispatch("tiles.get_collection_tiles", <<Arg(route, "collection_id")>>, FALSE)
      [] route.view = "get_collection_tiles_metadata" ->
            Dispatch("tiles.get_collection_tiles_metadata",
                     <<Arg(route, "collection_id"), Arg(route, "tileMatrixSetId")>>, TRUE)
      [] route.view = "get_collection_tiles_data" ->
            Dispatch("tiles.get_collection_tiles_data",
                     <<Arg(route, "collection_id"), Arg(route, "tileMatrixSetId"),
                       Arg(route, "tileMatrix"), Arg(route, "tileRow"),
                       Arg(route, "tileCol")>>, TRUE)
      [] route.view = "collection_map" ->
            Dispatch("maps.get_collection_map",
                     <<Arg(route, "collection_id"), Arg(route, "style_id")>>, FALSE)
      [] route.view = "get_processes" ->
            Dispatch("processes.describe_processes", <<Arg(route, "process_id")>>, FALSE)
      [] route.view = "get_jobs" ->
            IF Arg(route, "job_id") = "<None>"
            THEN Dispatch("processes.get_jobs", <<>>, FALSE)
            ELSE IF method = "DELETE"
            THEN Dispatch("processes.delete_job", <<Arg(route, "job_id")>>, FALSE)
            ELSE Dispatch("processes.get_jobs", <<Arg(route, "job_id")>>, FALSE)
      [] route.view = "execute_process_jobs" ->
            Dispatch("processes.execute_process", <<Arg(route, "process_id")>>, FALSE)
      [] route.view = "get_job_result" ->
            Dispatch("processes.get_job_result", <<Arg(route, "job_id")>>, FALSE)
      [] route.view = "get_collection_edr_query" ->
            flask_get_collection_edr_query(route, ends_with_instance)
      [] route.view = "stac_catalog_root" -> Dispatch("stac.get_stac_root", <<>>, FALSE)
      [] route.view = "stac_catalog_path" ->
            Dispatch("stac.get_stac_path", <<Arg(route, "path")>>, FALSE)

\* the views of starlette_application/core.py
starlette_core(route, method, content_type, ends_with_instance) ==
    CASE route.view = "landing_page" -> Dispatch("landing_page", <<>>, FALSE)
      [] route.view = "openapi" -> Dispatch("openapi_", <<>>, FALSE)
      [] route.view = "conformance" -> Dispatch("conformance", <<>>, FALSE)
      [] route.view = "get_tilematrix_set" ->
            Dispatch("tiles.tilematrixset", <<Arg(route, "tileMatrixSetId")>>, FALSE)
      [] route.view = "get_tilematrix_sets" ->
            Dispatch("tiles.tilematrixsets", <<>>, FALSE)
      [] route.view = "collection_schema" ->
            Dispatch("get_collection_schema", <<Arg(route, "collection_id")>>, FALSE)
      [] route.view = "collection_queryables" ->
            Dispatch("itemtypes.get_collection_queryables",
                     <<Arg(route, "collection_id")>>, FALSE)
      [] route.view = "get_collection_tiles" ->
            Dispatch("tiles.get_collection_tiles", <<Arg(route, "collection_id")>>, FALSE)
      [] route.view = "get_collection_tiles_metadata" ->
            Dispatch("tiles.get_collection_tiles_metadata",
                     <<Arg(route, "collection_id"), Arg(route, "tileMatrixSetId")>>, TRUE)
      [] route.view = "get_collection_tiles_data" ->
            Dispatch("tiles.get_collection_tiles_data",
                     <<Arg(route, "collection_id"), Arg(route, "tileMatrixSetId"),
                       Arg(route, "tileMatrix"), Arg(route, "tileRow"),
                       Arg(route, "tileCol")>>, TRUE)
      [] route.view = "collection_items" ->
            collection_items(method, "item_id" \in route.params, content_type)
      [] route.view = "collection_coverage" ->
            Dispatch("coverages.get_collection_coverage",
                     <<Arg(route, "collection_id")>>, TRUE)
      [] route.view = "collection_map" ->
            Dispatch("maps.get_collection_map",
                     <<Arg(route, "collection_id"), Arg(route, "style_id")>>, FALSE)
      [] route.view = "get_processes" ->
            Dispatch("processes.describe_processes", <<Arg(route, "process_id")>>, FALSE)
      [] route.view = "get_jobs" ->
            IF Arg(route, "job_id") = "<None>"
            THEN Dispatch("processes.get_jobs", <<>>, FALSE)
            ELSE IF method = "DELETE"
            THEN Dispatch("processes.delete_job", <<Arg(route, "job_id")>>, FALSE)
            ELSE Dispatch("processes.get_jobs", <<Arg(route, "job_id")>>, FALSE)
      [] route.view = "execute_process_jobs" ->
            Dispatch("processes.execute_process", <<Arg(route, "process_id")>>, FALSE)
      [] route.view = "get_job_result" ->
            Dispatch("processes.get_job_result", <<Arg(route, "job_id")>>, FALSE)
      [] route.view = "get_collection_edr_query" ->
            starlette_get_collection_edr_query(route, ends_with_instance)
      [] route.view = "collections" ->
            Dispatch("describe_collections", <<Arg(route, "collection_id")>>, FALSE)
      [] route.view = "stac_catalog_root" -> Dispatch("stac.get_stac_root", <<>>, FALSE)
      [] route.view = "stac_catalog_path" ->
            Dispatch("stac.get_stac_path", <<Arg(route, "path")>>, FALSE)

\* the views of the Flask extension's views/admin.py
flask_admin(route, method) ==
    CASE route.view = "admin_config" ->
            IF method = "GET" THEN Dispatch("admin.get_config_", <<>>, FALSE)
            ELSE IF method = "PUT" THEN Dispatch("admin.put_config", <<>>, FALSE)
            ELSE IF method = "PATCH" THEN Dispatch("admin.patch_config", <<>>, FALSE)
            ELSE NoDispatch
      [] route.view = "admin_config_resources" ->
            IF method = "GET" THEN Dispatch("admin.get_resources", <<>>, FALSE)
            ELSE IF method = "POST" THEN Dispatch("admin.post_resource", <<>>, FALSE)
            ELSE NoDispatch
      [] route.view = "admin_config_resource" ->
            IF method = "GET"
            THEN Dispatch("admin.get_resource", <<Arg(route, "resource_id")>>, FALSE)
            ELSE IF method = "DELETE"
            THEN Dispatch("admin.delete_resource", <<Arg(route, "resource_id")>>, FALSE)
            ELSE IF method = "PUT"
            THEN Dispatch("admin.put_resource", <<Arg(route, "resource_id")>>, FALSE)
            ELSE IF method = "PATCH"
            THEN Dispatch("admin.patch_resource", <<Arg(route, "resource_id")>>, FALSE)
            ELSE NoDispatch

\* the views of starlette_application/admin.py
starlette_admin(route, method) ==
    CASE route.view = "admin_config" ->
            IF method = "GET" THEN Dispatch("admin.get_config_", <<>>, FALSE)
            ELSE IF method = "PUT" THEN Dispatch("admin.put_config", <<>>, FALSE)
            ELSE IF method = "PATCH" THEN Dispatch("admin.patch_config", <<>>, FALSE)
            ELSE NoDispatch
      [] route.view = "admin_config_resources" ->
            IF method = "GET" THEN Dispatch("admin.get_resources", <<>>, FALSE)
            ELSE IF method = "POST" THEN Dispatch("admin.put_resource", <<>>, FALSE)
            ELSE NoDispatch
      [] route.view = "admin_config_resource" ->
            IF method = "GET"
            THEN Dispatch("admin.get_resource", <<Arg(route, "resource_id")>>, FALSE)
            ELSE IF method = "PUT"
            THEN Dispatch("admin.put_resource", <<Arg(route, "resource_id")>>, FALSE)
            ELSE IF method = "PATCH"
            THEN Dispatch("admin.patch_resource", <<Arg(route, "resource_id")>>, FALSE)
            ELSE IF method = "DELETE"
            THEN Dispatch("admin.delete_resource", <<Arg(route, "resource_id")>>, FALSE)
            ELSE NoDispatch

\* what the Flask extension calls for a request
flask_dispatch(route, method, content_type, ends_with_instance) ==
    IF route \in AdminRoutes THEN flask_admin(route, method)
    ELSE flask_core(route, method, content_type, ends_with_instance)

\* what the Starlette application calls for a request
starlette_dispatch(route, method, content_type, ends_with_instance) ==
    IF route \in AdminRoutes THEN starlette_admin(route, method)
    ELSE starlette_core(route, method, content_type, ends_with_instance)

\* a request is routed to its view in both applications; ends_with_instance
\* says whether the path's text ends with the value of instance_id
CallDispatch ==
    /\ call = NoCall
    /\ \E route \in CoreRoutes \cup AdminRoutes, content_type \in ContentTypes,
          ends_with_instance \in BOOLEAN :
          \E method \in route.methods :
              /\ route.last = "{instance_id}" => ends_with_instance
              /\ "instance_id" \notin route.params => ~ends_with_instance
              /\ call' = [NoCall EXCEPT
                            !.op = "dispatch",
                            !.input = [route |-> route.path, method |-> method,
                                       content_type |-> content_type,
                                       ends_with_instance |-> ends_with_instance],
                            !.result = [flask |-> flask_dispatch(
                                            route, method, content_type,
                                            ends_with_instance),
                                        starlette |-> starlette_dispatch(
                                            route, method, content_type,
                                            ends_with_instance)]]
    /\ UNCHANGED pipelineVars

-----------------------------------------------------------------------------
(* The views: schemas *)

\* str.replace(old, new): the occurrences of old, found from the left and
\* not overlapping, are replaced
RECURSIVE replace(_, _, _)
replace(s, old, new) ==
    IF Len(s) < Len(old) THEN s
    ELSE IF SubSeq(s, 1, Len(old)) = old
    THEN new \o replace(SubSeq(s, Len(old) + 1, Len(s)), old, new)
    ELSE <<Head(s)>> \o replace(Tail(s), old, new)

\* str.rfind('/') + 1
RECURSIVE AfterLastSlash(_)
AfterLastSlash(p) ==
    IF p = <<>> THEN 0
    ELSE IF p[Len(p)] = "/" THEN Len(p)
    ELSE AfterLastSlash(SubSeq(p, 1, Len(p) - 1))

\* os.path.join of two components
join(a, p) ==
    IF p # <<>> /\ Head(p) = "/" THEN p
    ELSE IF a = <<>> \/ endswith(a, "/") THEN a \o p
    ELSE a \o <<"/">> \o p

\* str.rstrip('/')
RECURSIVE RStripSlash(_)
RStripSlash(s) ==
    IF s # <<>> /\ s[Len(s)] = "/" THEN RStripSlash(SubSeq(s, 1, Len(s) - 1)) ELSE s

\* os.path.dirname
dirname(p) ==
    IF \A i \in 1..AfterLastSlash(p) : p[i] = "/"
    THEN SubSeq(p, 1, AfterLastSlash(p))
    ELSE RStripSlash(SubSeq(p, 1, AfterLastSlash(p)))

\* os.path.basename
basename(p) == SubSeq(p, AfterLastSlash(p) + 1, Len(p))

\* what a schemas view answers
Sent(directory, filename) ==
    [outcome |-> "send_from_directory", directory |-> directory,
     filename |-> filename]

InvalidPath == [outcome |-> "400", directory |-> <<>>, filename |-> <<>>]

\* schemas of the Flask extension's views/ogcschemas.py
schemas(ogc_schemas_location, path) ==
    IF Contains(replace(replace(replace(
                    dirname(join(ogc_schemas_location, path)),
                    <<".", ".">>, <<>>), <<"/", "/">>, <<>>), <<".", "/">>, <<>>),
                <<".", ".">>)
    THEN InvalidPath
    ELSE Sent(replace(replace(replace(
                  dirname(join(ogc_schemas_location, path)),
                  <<".", ".">>, <<>>), <<"/", "/">>, <<>>), <<".", "/">>, <<>>),
              basename(join(ogc_schemas_location, path)))

\* schemas of flask_app.py
schemas_flask_app(ogc_schemas_location, path) ==
    Sent(replace(replace(dirname(join(ogc_schemas_location, path)),
                         <<".", ".">>, <<>>), <<"/", "/">>, <<>>),
         basename(join(ogc_schemas_location, path)))

\* the characters of a requested path
PathChars == {".", "/", "f"}

\* the longest requested path
MaxPathLen == 6

\* the values of the <path:path> variable: not empty, no leading slash
SchemaPaths ==
    {p \in UNION {[1..n -> PathChars] : n \in 1..MaxPathLen} : p[1] # "/"}

\* the configured server.ogc_schemas_location, a local directory
SchemaLocations == {<<"/", "s">>, <<"/", "s", "/">>}

\* the modules that define a schemas view
SchemaViews == {"ogcschemas", "flask_app"}

\* a request for a schema document reaches a view
CallSchemas ==
    /\ call = NoCall
    /\ \E view \in SchemaViews, location \in SchemaLocations, path \in SchemaPaths :
          call' = [NoCall EXCEPT
                     !.op = "schemas",
                     !.input = [view |-> view, location |-> location,
                                path |-> path],
                     !.result = IF view = "flask_app"
                                THEN schemas_flask_app(location, path)
                                ELSE schemas(location, path)]
    /\ UNCHANGED pipelineVars

\* the view returns and the next request can come
Return ==
    /\ call.op \in {"schemas", "dispatch", "collection_items"}
    /\ call' = NoCall
    /\ UNCHANGED pipelineVars

-----------------------------------------------------------------------------
(* Specifications *)

PipelineIdle ==
    /\ native = [r \in Req |-> NoNative]
    /\ pc = [r \in Req |-> "idle"]
    /\ env = [r \in Req |-> NoEnvelope]
    /\ future = [r \in Req |-> NoFuture]
    /\ triple = [r \in Req |-> NoTriple]
    /\ response = [r \in Req |-> NoResponse]
    /\ raised = [r \in Req |-> ""]
    /\ calls = [r \in Req |-> 0]
    /\ steps = [r \in Req |-> <<>>]
    /\ loopOwner = 0

\* a server process: one framework, one supported-locale list, no request yet
Init ==
    /\ call = NoCall
    /\ module = ModuleAtImport
    /\ backend \in Backends
    /\ locales \in ServerLocales
    /\ PipelineIdle

Handle(r) ==
    \/ Arrive(r)
    \/ Begin(r)
    \/ ResolveLocale(r)
    \/ NegotiateFormat(r)
    \/ CopyHeaders(r)
    \/ FromFlask(r)
    \/ AwaitBody(r)
    \/ BodyReady(r)
    \/ CheckValid(r)
    \/ InvokeFlask(r)
    \/ Submit(r)
    \/ call_api_threadsafe(r)
    \/ ApiReturn(r)
    \/ ApiRaise(r)
    \/ Resume(r)
    \/ ApplyGzip(r)
    \/ Materialize(r)

Next == \E r \in Req : Handle(r)

Spec == Init /\ [][Next]_vars

\* the positions of a request in execute_from_flask / execute_from_starlette
Positions ==
    {"idle", "new", "args", "locale", "format", "headers", "await_body",
     "constructed", "call", "submitted", "running", "finished", "returned",
     "materialize", "done", "raised"}

\* the condition of the next step of request r that the event loop or a worker
\* thread of the executor is to take: every step but the arrival of the
\* request and the return or the exception of the API function, which are the
\* client's and the function's
Ready(r) ==
    CASE pc[r] = "new" -> LoopFree(r)
      [] pc[r] \in {"args", "locale", "format", "constructed", "returned",
                    "materialize"} -> OnLoop(r)
      [] pc[r] \in {"headers", "call"} -> OnLoop(r)
      [] pc[r] = "await_body" -> loopOwner = 0
      [] pc[r] = "submitted" -> TRUE
      [] pc[r] = "finished" -> loopOwner = 0
      [] OTHER -> FALSE

\* request r takes that step: its position changes
Scheduled(r) ==
    /\ Ready(r)
    /\ \E p \in Positions \ {pc[r]} : pc' = [pc EXCEPT ![r] = p]

\* the event loop runs every coroutine that is ready, and the executor every
\* call that is queued
Fairness == \A r \in Req : WF_pc(Scheduled(r))

SpecFair == Spec /\ Fairness

\* one envelope and the calls of its methods
InitFn ==
    /\ call = NoCall
    /\ module \in {ModuleAtImport, ModuleGzipEnabled}
    /\ backend = "flask"
    /\ locales = << <<"en">>, <<"fr">> >>
    /\ PipelineIdle

NextFn ==
    \/ CallGetLocale
    \/ CallGetFormat
    \/ CallIsValid
    \/ CallWithData
    \/ CallGetLinkrel
    \/ CallGetResponseHeaders
    \/ CallGetRequestHeaders
    \/ ReadProperty
    \/ Call_to_response
    \/ CallDjangoView

SpecFn == InitFn /\ [][NextFn]_vars

\* the application around the core: configuration, middleware, views
InitApp ==
    /\ call = NoCall
    /\ module = ModuleAtImport
    /\ backend \in Backends
    /\ locales \in ServerLocales
    /\ PipelineIdle

NextApp ==
    \/ CallConfGet
    \/ CallMiddleware
    \/ FollowRedirect
    \/ CallCollectionItems
    \/ CallDispatch
    \/ CallSchemas
    \/ Return

SpecApp == InitApp /\ [][NextApp]_vars

-----------------------------------------------------------------------------
(* Properties of the pipeline (specification Spec) *)

\* the positions of a request after the validity check of execute_from_*
AfterCheck ==
    {"materialize", "call", "submitted", "running", "finished", "returned", "done"}

\* C1: a request on which the validity check is performed and whose format is
\* not valid never has the API function invoked, and the triple it holds and
\* the response materialized for it are those of get_format_exception.
C1_InvalidFormatShortCircuits ==
    \A r \in Req :
        (/\ pc[r] \in AfterCheck
         /\ ~native[r].skip_valid_check
         /\ ~is_valid(env[r].format, NoFormats))
        => /\ calls[r] = 0
           /\ pc[r] \in {"materialize", "done"}
           /\ triple[r] = get_format_exception(env[r])
           /\ pc[r] = "done" =>
                response[r] = ToResponse(backend, get_format_exception(env[r]))

\* C1 witness: a request with f=xml, validity checked, answered with the 400
\* of the format exception while the API function was never invoked.
C1_Witness ==
    \E r \in Req :
        /\ pc[r] = "done"
        /\ ~native[r].skip_valid_check
        /\ env[r].format = <<"xml">>
        /\ response[r].status = 400
        /\ calls[r] = 0

\* s is a prefix of t
IsPrefix(s, t) == Len(s) <= Len(t) /\ SubSeq(t, 1, Len(s)) = s

\* the complete step sequences of one request
FullPaths ==
    {<<"locale", "format", "valid", "invoke", "returned", "gzip", "materialize">>,
     <<"locale", "format", "invoke", "returned", "gzip", "materialize">>,
     <<"locale", "format", "valid", "materialize">>}

\* C2: the steps of one request happen only in the order locale resolution,
\* format negotiation, validity check, API function (invoked, then returned),
\* gzip, materialization: what a request has done so far is always an initial
\* part of one such sequence, each step after the one before it has finished.
C2_StepsInOrder ==
    \A r \in Req :
        /\ \E p \in FullPaths : IsPrefix(steps[r], p)
        /\ \A i, j \in 1..Len(steps[r]) :
              i < j => Rank(steps[r][i]) < Rank(steps[r][j])

\* C2 witness: a request that went through all six kinds of step.
C2_Witness ==
    \E r \in Req :
        steps[r] = <<"locale", "format", "valid", "invoke", "returned", "gzip",
                     "materialize">>

\* the positions at which a coroutine waits to be started or resumed by the
\* loop, and those at which it is running on the loop thread
Suspended == {"new", "await_body"}

Running == {"args", "locale", "format", "headers", "constructed"}

\* C3: in the asynchronous backend the event-loop thread never runs an API
\* function (while one runs, its request does not hold the loop thread), and
\* while the API function of one request runs, another request whose coroutine
\* holds the loop, or waits for it and finds it free, meets the condition of
\* its next step of envelope construction and validity check.
C3_LoopThreadStaysFree ==
    backend = "starlette" =>
        /\ \A r \in Req : pc[r] \in {"submitted", "running", "finished"} => loopOwner # r
        /\ \A r1, r2 \in Req :
              (/\ r1 # r2
               /\ pc[r1] = "running"
               /\ loopOwner \in {0, r2})
              => /\ pc[r2] \in Suspended => LoopFree(r2)
                 /\ pc[r2] \in Running => OnLoop(r2)

\* C3 witness: the API function of request 1 is running on a worker thread
\* while the coroutine of request 2 holds the loop with its validity check done.
C3_Witness ==
    /\ backend = "starlette"
    /\ pc[1] = "running"
    /\ pc[2] = "call"
    /\ loopOwner = 2

\* C4: in the asynchronous backend, once the API function of a request has
\* raised, it has been invoked exactly once, no triple, gzip step or response
\* exists for the request, and the exception that leaves execute_from_starlette
\* is the one the API function raised.
C4_ExceptionPropagatesUnchanged ==
    \A r \in Req :
        (backend = "starlette" /\ future[r].exception # "")
        => /\ calls[r] = 1
           /\ pc[r] \in {"finished", "raised"}
           /\ triple[r] = NoTriple
           /\ response[r] = NoResponse
           /\ \A i \in 1..Len(steps[r]) : steps[r][i] \notin {"gzip", "materialize"}
           /\ pc[r] = "raised" => raised[r] = future[r].exception

\* C4 witness: the exception of the API function has left
\* execute_from_starlette.
C4_Witness ==
    \E r \in Req :
        /\ backend = "starlette"
        /\ pc[r] = "raised"
        /\ future[r].exception = "ProviderError"
        /\ raised[r] = "ProviderError"

-----------------------------------------------------------------------------
(* Properties of the envelope's methods (specification SpecFn) *)

\* the Locales a supported-locale list declares
SupportedLocales(supported) ==
    {str2locale(supported[i]) : i \in 1..Len(supported)} \ {NoLocale}

\* C5: whatever the lang parameter and the Accept-Language header, a locale
\* that _get_locale returns is one of the supported locales.
C5_LocaleIsSupported ==
    (call.op = "_get_locale" /\ call.result.error = "")
    => call.result.locale \in SupportedLocales(call.supported)

\* C5 witness: the parameter asks for a language that is not supported and the
\* header for one that does not parse, against two supported locales.
C5_Witness ==
    /\ call.op = "_get_locale"
    /\ call.result.error = ""
    /\ Len(call.supported) = 2
    /\ Get(call.args, "lang", None) = <<"de">>
    /\ Get(call.headers, "Accept-Language", None) = <<"zz">>

\* C6: a non-empty lang parameter decides alone: raw is its value and the
\* locale is the best match of its value, whatever the Accept-Language header
\* holds and also when that best match is the default locale.
C6_LangParameterDecides ==
    (/\ call.op = "_get_locale"
     /\ call.result.error = ""
     /\ Truthy(Get(call.args, "lang", None)))
    => /\ call.result.raw = call.args["lang"]
       /\ call.result.locale = best_match(call.args["lang"], call.supported)

\* C6 witness: lang=en matches the default locale en while the header asks for
\* the supported fr-CA, and the result is en.
C6_Witness ==
    /\ call.op = "_get_locale"
    /\ call.supported = << <<"en">>, <<"fr-CA">> >>
    /\ Get(call.args, "lang", None) = <<"en">>
    /\ Get(call.headers, "Accept-Language", None) = <<"fr-CA">>
    /\ call.result.raw = <<"en">>
    /\ call.result.locale = Locale("en", "")

\* C7 as stated: a present, non-empty f parameter is returned verbatim.
C7_FVerbatim ==
    (/\ call.op = "_get_format"
     /\ "f" \in DOMAIN call.args
     /\ call.args["f"] # <<>>)
    => call.result = call.args["f"]

\* C7 as amended: an f parameter that is non-empty once its surrounding
\* whitespace is stripped is returned stripped, whether or not it is a key of
\* the format table and whatever the Accept header holds.
C7_FStripped ==
    (/\ call.op = "_get_format"
     /\ "f" \in DOMAIN call.args
     /\ Strip(call.args["f"]) # <<>>)
    => call.result = Strip(call.args["f"])

\* C7 witness: f=bogus with an Accept header that names text/html.
C7_Witness ==
    /\ call.op = "_get_format"
    /\ Get(call.args, "f", None) = <<"bogus">>
    /\ Get(call.headers, "Accept", None) = <<"text/html">>
    /\ call.result = <<"bogus">>

\* the Accept header _get_format reads
AcceptHeader(headers) == Strip(Get(headers, "accept", Get(headers, "Accept", <<>>)))

\* C8 as stated: without an f parameter the result is the first entry of the
\* format table, in table order, whose MIME type is among the Accept header's
\* types, whatever their order in the header.
C8_TableOrderWins ==
    (call.op = "_get_format" /\ "f" \notin DOMAIN call.args)
    => call.result = Or(ScanTable(AcceptTypes(AcceptHeader(call.headers)), 1), None)

\* C9 as stated: is_valid is true exactly when the format is None, a key of
\* the format table, or a member of additional_formats.
C9_ValidExactlyWhenListed ==
    call.op = "is_valid"
    => (call.result
        <=> \/ call.format = None
            \/ call.format \in FormatKeys
            \/ \E i \in 1..Len(FormatItems(call.additional)) :
                  FormatItems(call.additional)[i] = call.format)

\* C10 as stated: a format that equals a key of the format table or a member
\* of additional_formats up to letter case is valid.
C10_CaseInsensitive ==
    (/\ call.op = "is_valid"
     /\ Truthy(call.format)
     /\ \/ \E k \in FormatKeys : Lower(k) = Lower(call.format)
        \/ \E i \in 1..Len(FormatItems(call.additional)) :
              Lower(FormatItems(call.additional)[i]) = Lower(call.format))
    => call.result

\* C11: against a supported-locale list that is not empty and whose entries all
\* parse, _get_locale raises nothing; the raw string it returns is None exactly
\* when neither the lang parameter nor the Accept-Language header has a
\* non-empty value; and when the lang parameter is empty and the header is
\* empty or matches no supported locale, the locale returned is the first
\* supported one.
C11_NeverFailsAndFallsBack ==
    (/\ call.op = "_get_locale"
     /\ call.supported # <<>>
     /\ AllParsable(call.supported))
    => LET lang == locale_from_params(call.args)
           accept == locale_from_headers(call.headers)
       IN  /\ call.result.error = ""
           /\ call.result.raw = None <=> (~Truthy(lang) /\ ~Truthy(accept))
           /\ (/\ ~Truthy(lang)
               /\ \/ ~Truthy(accept)
                  \/ FirstMatch(LanguageTags(accept), call.supported) = NoLocale)
              => call.result.locale = str2locale(call.supported[1])

\* C11 witness: no lang parameter and a header that asks for de, against the
\* supported en and fr: the raw string is the header's, the locale is en.
C11_Witness ==
    /\ call.op = "_get_locale"
    /\ call.supported = << <<"en">>, <<"fr">> >>
    /\ "lang" \notin DOMAIN call.args
    /\ Get(call.headers, "Accept-Language", None) = <<"de">>
    /\ call.result.raw = <<"de">>
    /\ call.result.locale = Locale("en", "")

\* the supported-locale lists that give no default locale
NoValidDefault(supported) == supported = <<>> \/ ~Parsable(supported[1])

\* C12 as stated: locale resolution against an empty supported-locale list, or
\* one whose first entry does not parse, fails with a ConfigurationError and
\* yields no envelope; and that failure belongs to startup: no construction of
\* an envelope for a request (with_data, pre_process) ends in an error.
C12_StartupFatalOnly ==
    /\ (call.op = "_get_locale" /\ NoValidDefault(call.supported))
       => call.result.error = "ConfigurationError"
    /\ (call.op \in {"with_data", "pre_process"} /\ NoValidDefault(call.supported))
       => call.envelope = NoEnvelope
    /\ call.op \in {"with_data", "pre_process"} => call.result = ""

\* C13: whatever the envelope, force_lang, force_type, force_encoding and the
\* custom headers, the map that get_response_headers returns has an entry
\* Content-Type and an entry Content-Language.
C13_TypeAndLanguagePresent ==
    call.op = "get_response_headers"
    => {"Content-Type", "Content-Language"} \subseteq DOMAIN call.result

\* C13 witness: an envelope with the invalid format bogus and a call without
\* any argument: both entries are there, the type being the default.
C13_Witness ==
    /\ call.op = "get_response_headers"
    /\ call.envelope.format = <<"bogus">>
    /\ call.input.force_type = None
    /\ call.input.force_lang = NoLocale
    /\ call.input.custom_headers = EmptyDict
    /\ call.result["Content-Type"] = <<"application/json">>
    /\ call.result["Content-Language"] = <<"en">>

\* the MIME type the claim gives the Content-Type entry
ClaimedContentType(e, force_type) ==
    IF Truthy(force_type) THEN force_type
    ELSE IF Truthy(e.format) /\ e.format \in FormatKeys THEN FormatType(e.format)
    ELSE <<"application/json">>

\* C14 as stated: Content-Type is force_type when given, else the table's MIME
\* type of a format that is set and valid, else the default application/json;
\* Content-Language is force_lang when given, else the resolved locale.
C14_TypeAndLanguageValues ==
    call.op = "get_response_headers"
    => /\ call.result["Content-Type"] =
              ClaimedContentType(call.envelope, call.input.force_type)
       /\ call.result["Content-Language"] =
              locale2str(IF call.input.force_lang # NoLocale
                         THEN call.input.force_lang ELSE call.envelope.locale)

\* a header map carries Content-Encoding: gzip
CarriesGzip(headers) == Get(headers, "Content-Encoding", <<>>) = F_GZIP

\* what the claim requires of a response that carries the header: the client's
\* Accept-Encoding contains gzip, gzip is enabled, and the body is the result
\* of the gzip step on the triple's content
GzipJustified(request, t, body) ==
    /\ Contains(Get(request.headers, "Accept-Encoding", <<>>), F_GZIP)
    /\ F_GZIP \in FormatKeys
    /\ body = apply_gzip(t.headers, t.content)

\* C15 as stated: a response carries Content-Encoding: gzip only if the client
\* accepts gzip, the configuration enables it and the gzip step was run on the
\* body: for the response of a Django view, and for the response that
\* execute_from_flask gives a Flask request with an invalid format.
C15_GzipOnlyWhenApplied ==
    /\ (/\ call.op = "adapt_django_request_to_pygeoapi"
        /\ CarriesGzip(call.result.headers))
       => GzipJustified(call.request, call.input, call.result.body)
    /\ (/\ call.op = "with_data"
        /\ call.request.variant = "environ"
        /\ Constructed
        /\ TakesFormatException(FALSE, call.envelope))
       => LET t == get_format_exception(call.envelope)
              r == FlaskResponse(t.headers, t.status, t.content)
          IN  CarriesGzip(r.headers) => GzipJustified(call.request, t, r.body)

\* the gzip step has been performed for request r
GzipStepDone(r) == \E i \in 1..Len(steps[r]) : steps[r][i] = "gzip"

\* C16: when the headers of a triple have no Content-Encoding entry equal to
\* gzip, the gzip step changes nothing: after it the request holds the triple
\* the API function returned, headers, status and body, and the body of the
\* response materialized from it is that body.
C16_GzipNoOpWithoutHeader ==
    \A r \in Req :
        (GzipStepDone(r) /\ ~CarriesGzip(future[r].result.headers))
        => /\ triple[r] = future[r].result
           /\ pc[r] = "done" => response[r].body = future[r].result.content

\* C16 witness: a request answered after the gzip step ran on a triple whose
\* headers do not ask for gzip.
C16_Witness ==
    \E r \in Req :
        /\ pc[r] = "done"
        /\ GzipStepDone(r)
        /\ "Content-Encoding" \notin DOMAIN future[r].result.headers
        /\ response[r].body = Content("str", <<"body">>)

\* C17: _to_response builds an HTMLResponse exactly when the Content-Type of
\* the triple is text/html and nothing else; otherwise a JSONResponse exactly
\* when the body is a mapping; otherwise a plain Response.  The status of the
\* response is the triple's, and every header of the triple is on the response
\* with the triple's value.
C17_ClassStatusHeaders ==
    call.op = "_to_response"
    => LET h == call.input.headers
           html == h["Content-Type"] = <<"text/html">>
           mapping == call.input.content.kind = "dict"
           r == call.result
       IN  /\ r.kind = "HTMLResponse" <=> html
           /\ ~html => (r.kind = "JSONResponse" <=> mapping)
           /\ (~html /\ ~mapping) => r.kind = "Response"
           /\ r.status = call.input.status
           /\ \A k \in DOMAIN h :
                 /\ LowerName(k) \in DOMAIN r.headers
                 /\ r.headers[LowerName(k)] = h[k]

\* C17 witness: a mapping with the content type text/html;charset=utf-8 and
\* the status 400 becomes a JSONResponse that carries that content type.
C17_Witness ==
    /\ call.op = "_to_response"
    /\ call.input.headers["Content-Type"] = <<"text/html", ";", "charset=utf-8">>
    /\ call.input.content.kind = "dict"
    /\ call.input.status = 400
    /\ call.result.kind = "JSONResponse"
    /\ call.result.status = 400
    /\ call.result.headers["content-type"] = <<"text/html", ";", "charset=utf-8">>

\* a string begins or ends with a slash
SlashAtEnds(s) == s # <<>> /\ (Head(s) = "/" \/ s[Len(s)] = "/")

\* C18 as stated: for each of the three native request variants, the path_info
\* of a constructed envelope is defined and has neither a leading nor a
\* trailing slash.
C18_PathInfoStripped ==
    (call.op \in {"with_data", "pre_process"} /\ Constructed)
    => /\ call.envelope.path_info # None
       /\ ~SlashAtEnds(call.envelope.path_info)

\* C19: once with_data (or the constructor under pre_process) has returned an
\* envelope, no later call of is_valid, get_linkrel, get_response_headers,
\* get_request_headers or of a property changes its method, path_info, params,
\* headers, data, raw_locale, locale or format, however many calls follow.
C19_EnvelopeUnchanged ==
    [][call.envelope.method # "" => call'.envelope = call.envelope]_vars

\* C19 witness: get_response_headers, with custom headers, has been called on
\* the envelope of a POST request, and the envelope is the one with_data built.
C19_Witness ==
    /\ call.op = "get_response_headers"
    /\ call.input.custom_headers # EmptyDict
    /\ call.request.method = "POST"
    /\ call.envelope = with_data(call.request, call.supported, TRUE).envelope
    /\ call.envelope.data = <<"{}">>

\* C20: under every interleaving of the requests in flight, FORMAT_TYPES,
\* HEADERS and the supported-locale list are what they were at process start,
\* and the headers a request holds are its own: the entries of HEADERS, its own
\* content type and language, and at most the Content-Encoding its own API
\* function added; nothing written for another request shows in them.
C20_SharedObjectsUnchanged ==
    /\ module = ModuleAtImport
    /\ locales \in ServerLocales
    /\ \A r \in Req :
          triple[r] # NoTriple
          => LET h == triple[r].headers
             IN  /\ DOMAIN h \subseteq DOMAIN HEADERS
                                   \cup {"Content-Language", "Content-Encoding"}
                 /\ h["X-Powered-By"] = HEADERS["X-Powered-By"]
                 /\ h["Content-Type"] = ClaimedContentType(env[r], None)
                 /\ h["Content-Language"] = locale2str(env[r].locale)

\* C20 witness: two requests were handled, the API function of the first added
\* Content-Encoding to its headers, and the headers of the second, in another
\* language, do not have it.
C20_Witness ==
    /\ pc[1] = "done"
    /\ pc[2] = "done"
    /\ "Content-Encoding" \in DOMAIN triple[1].headers
    /\ "Content-Encoding" \notin DOMAIN triple[2].headers
    /\ calls[2] = 1
    /\ triple[1].headers["Content-Language"] # triple[2].headers["Content-Language"]

-----------------------------------------------------------------------------
(* Suspension points, standard headers, and termination of the pipeline *)

\* the positions of a coroutine of execute_from_starlette between its first
\* step and its end
Started ==
    {"args", "locale", "format", "headers", "await_body", "constructed", "call",
     "submitted", "running", "finished", "returned", "materialize"}

\* the positions at which the coroutine awaits the worker-thread future
AwaitingFuture == {"submitted", "running", "finished"}

\* C21 as stated: in the asynchronous backend a coroutine that has started and
\* not ended is off the event-loop thread only while it awaits the
\* worker-thread future: at every position of envelope construction, of the
\* validity check, of the gzip step and of materialization it holds the loop.
C21_SingleSuspensionPoint ==
    backend = "starlette" =>
        \A r \in Req :
            /\ (pc[r] \in Started /\ loopOwner # r) => pc[r] \in AwaitingFuture
            /\ pc[r] \in Started \ AwaitingFuture => loopOwner = r

\* the default Content-Type the claim names: 'application/json; charset=UTF-8'
JsonUtf8 == <<"application/json", ";", " ", "charset=UTF-8">>

\* C22 as stated: every map that get_response_headers returns has the entry
\* X-Powered-By with the static product and version string, and its
\* Content-Type is 'application/json; charset=UTF-8' when no force_type is
\* given, the format is unset or invalid, and the custom headers have no
\* Content-Type.
C22_StandardHeaders ==
    call.op = "get_response_headers"
    => /\ "X-Powered-By" \in DOMAIN call.result
       /\ call.result["X-Powered-By"] = HEADERS["X-Powered-By"]
       /\ (/\ ~Truthy(call.input.force_type)
           /\ ~(Truthy(call.envelope.format) /\ call.envelope.format \in FormatKeys)
           /\ "Content-Type" \notin DOMAIN call.input.custom_headers)
          => call.result["Content-Type"] = JsonUtf8

-----------------------------------------------------------------------------
(* Properties of the application layer (specification SpecApp) *)

\* the keys a configuration object holds a value for: the entries of its shared
\* dict, or its attributes, under their own name or a compatibility name
Present(obj, key) ==
    IF obj.impl = "shared" /\ obj.cls \in DictBacked THEN key \in DOMAIN obj.shared
    ELSE \/ _get_compat_key_name(obj.cls, key) \in DOMAIN obj.dict
         \/ obj.impl = "default" /\ obj.cls = "Server" /\ key = "templates"

\* C23 as stated: get(key, default) of every configuration object, default or
\* shared, raises nothing, gives the value of __getitem__ for a key that is
\* present and the given default for a key that is absent.
C23_GetValueOrDefault ==
    call.op = "get"
    => LET obj == call.input.obj
           key == call.input.key
       IN  /\ call.result.error = ""
           /\ Present(obj, key) => call.result = __getitem__(obj, key)
           /\ ~Present(obj, key) => call.result.value = call.input.default

\* C24: with strict slashes on, an HTTP scope whose path is the prefix is
\* answered with a redirect to the path plus a slash; one whose path ends with
\* a slash and is neither the prefix nor the prefix plus a slash is answered
\* 404; every other one is forwarded.  The wrapped application is not invoked
\* for the first two, and a scope that is not HTTP, or any scope with strict
\* slashes off, is forwarded as it is.
C24_OneOfThreeOutcomes ==
    call.op = "ApiRulesMiddleware"
    => LET scope == call.input.scope
           prefix == call.input.prefix
           r == call.result
           redirect == scope.path = prefix
           notfound == /\ scope.path # prefix
                       /\ endswith(scope.path, "/")
                       /\ scope.path # prefix \o <<"/">>
       IN  IF scope.type = "http" /\ call.input.strict
           THEN /\ r.outcome \in {"redirect", "response", "app"}
                /\ redirect => /\ r.outcome = "redirect"
                               /\ r.location = scope.path \o <<"/">>
                               /\ r.app_calls = 0
                /\ notfound => /\ r.outcome = "response"
                               /\ r.status = 404
                               /\ r.app_calls = 0
                /\ (~redirect /\ ~notfound) => /\ r.outcome = "app"
                                               /\ r.forwarded = scope
                                               /\ r.app_calls = 1
           ELSE r.outcome = "app" /\ r.forwarded = scope /\ r.app_calls = 1

\* C24 witness: under the prefix /api with strict slashes, /api/collections/ is
\* answered 404 without the application.
C24_Witness ==
    /\ call.op = "ApiRulesMiddleware"
    /\ call.input.strict
    /\ call.input.scope = [type |-> "http",
                           path |-> <<"/", "api", "/", "collections", "/">>]
    /\ call.input.prefix = <<"/", "api">>
    /\ call.result.status = 404
    /\ call.result.app_calls = 0

\* C29: with strict slashes on, the request of a client that followed the
\* redirect of the middleware is forwarded to the wrapped application, with the
\* path prefix plus a slash: it is answered neither with another redirect nor
\* with a 404, so no client is redirected more than once.
C29_RedirectFollowedOnce ==
    (call.op = "ApiRulesMiddleware" /\ call.input.hops > 0)
    => /\ call.input.hops = 1
       /\ call.input.scope.path = call.input.prefix \o <<"/">>
       /\ call.result.outcome = "app"
       /\ call.result.forwarded = call.input.scope
       /\ call.result.app_calls = 1

\* C29 witness: the client asked for /api, was redirected, asked for /api/ and
\* reached the application.
C29_Witness ==
    /\ call.op = "ApiRulesMiddleware"
    /\ call.input.strict
    /\ call.input.hops = 1
    /\ call.input.prefix = <<"/", "api">>
    /\ call.input.scope.path = <<"/", "api", "/">>
    /\ call.result.outcome = "app"

-----------------------------------------------------------------------------
(* Further properties of locale resolution (specification SpecFn) *)

\* C25: when _get_locale returns a raw string, the locale it returns is the
\* best match of that raw string or the default locale; and a non-empty lang
\* parameter decides alone: the raw string is the parameter and the locale its
\* best match, whatever the Accept-Language header says.
C25_RawAndLocaleFromOneSource ==
    (/\ call.op = "_get_locale"
     /\ call.result.error = ""
     /\ call.result.raw # None)
    => LET lang == locale_from_params(call.args)
           r == call.result
       IN  /\ \/ r.locale = best_match(r.raw, call.supported)
              \/ r.locale = str2locale(call.supported[1])
           /\ Truthy(lang) => /\ r.raw = lang
                              /\ r.locale = best_match(lang, call.supported)

\* C25 witness: lang=de, which en and fr do not support, and a header that
\* asks for fr: the raw string is de and the locale the default en, not fr.
C25_Witness ==
    /\ call.op = "_get_locale"
    /\ call.supported = << <<"en">>, <<"fr">> >>
    /\ Get(call.args, "lang", None) = <<"de">>
    /\ Get(call.headers, "Accept-Language", None) = <<"fr", ";", "q=0.8">>
    /\ call.result.raw = <<"de">>
    /\ call.result.locale = Locale("en", "")

-----------------------------------------------------------------------------
(* Termination of the asynchronous pipeline (specification SpecFair) *)

\* the API function of request r has returned its triple, or the format of
\* the request has been rejected
Answerable(r) ==
    \/ pc[r] \in {"finished", "returned"} /\ future[r].exception = ""
    \/ pc[r] = "materialize"

\* request r has its materialized response
Answered(r) == pc[r] = "done" /\ response[r] = ToResponse(backend, triple[r])

\* C26: in the asynchronous backend, with the event loop and the worker threads
\* scheduled fairly, every request whose API function has returned or whose
\* format was rejected eventually has its materialized response; a response,
\* once materialized, is never replaced; and the API function of a request is
\* invoked at most once.
C26_EveryAnswerMaterialized ==
    /\ \A r \in Req : (backend = "starlette" /\ Answerable(r)) ~> Answered(r)
    /\ [][\A r \in Req : response[r] # NoResponse => response'[r] = response[r]]_vars
    /\ [](\A r \in Req : calls[r] <= 1)

\* C26 witness: two requests of the asynchronous backend are answered, the API
\* function of the second having returned before that of the first.
C26_Witness ==
    /\ backend = "starlette"
    /\ Answered(1)
    /\ Answered(2)
    /\ calls[1] = 1
    /\ calls[2] = 1
    /\ steps[1] # steps[2]

-----------------------------------------------------------------------------
(* Properties of the views (specification SpecApp) *)

\* C27 as stated: for every method an items route accepts and every value of
\* the Content-Type header, its absence included, the collection_items view of
\* each backend calls a business-logic function: none returns without one.
C27_ItemsAlwaysDispatched ==
    call.op = "collection_items" => call.result # NoDispatch

\* C28 as stated: for every (method, route) pair that the Flask extension and
\* the Starlette application both accept, on the core and on the admin routes,
\* both call the same function with the same positional arguments and the same
\* skip_valid_check flag.
C28_SameDispatch ==
    call.op = "dispatch" => call.result.flask = call.result.starlette

\* C30 as stated: whatever schema path is requested, the directory that the
\* ogcschemas view of the Flask extension or the schemas view of flask_app
\* hands to send_from_directory contains no '..'.
C30_NoParentInServedDirectory ==
    (call.op = "schemas" /\ call.result.outcome = "send_from_directory")
        => ~Contains(call.result.directory, <<".", ".">>)

====
